---- MODULE Spec2Model ----
(***************************************************************************)
(* A model of suyhuai/addressutil: the bit repacker, the CashAddr          *)
(* polynomial checksum, the Address objects with their memoised text, the  *)
(* network registries and the validators.                                  *)
(*                                                                         *)
(* Texts are sequences of ASCII codes, byte slices are sequences of        *)
(* numbers in 0..255.  Each group of variables belongs to one              *)
(* specification; the other specifications hold it at its initial value.   *)
(*                                                                         *)
(* A Go loop over a slice is written as a fold over an index range lo..hi  *)
(* that splits the range in two halves and runs the first half before the  *)
(* second: the iterations happen in the order of the loop.  TLC evaluates   *)
(* a LET definition where its value is first needed; Evaluated(x) needs    *)
(* it, so the first half has run when the second half starts.              *)
(***************************************************************************)
EXTENDS Integers, Sequences, FiniteSets, TLC

VARIABLES
    data,       \* SpecBits: the byte slice handed to convertBits
    packed,     \* SpecBits: result of addressutil.convertBits(data, 8, 5, true)
    unpacked,   \* SpecBits: result of bchutil.convertBits(packed, 5, 8, false)
    strict,     \* SpecBits: a call of convertBits with pad = false, and its result
    prefix,     \* SpecCash: the human-readable prefix
    payload,    \* SpecCash: the 5-bit groups the checksum is computed over
    checksum,   \* SpecCash: result of addressutil.createChecksum(prefix, payload)
    verified,   \* SpecCash: result of bchutil.verifyChecksum(prefix, payload ++ checksum)
    heap,       \* Spec: the Address objects created so far
    last,       \* Spec: the last call of the API and what it returned
    registry,   \* SpecReg: the registries of the three chaincfg packages
    accepted,   \* SpecReg: how often Register has accepted each Net, per package
    regLast,    \* SpecReg: the last Register call and the registry before it
    shared,     \* SpecRace: the object the goroutines share, its addr field as two words
    threads,    \* SpecRace: each goroutine's position in String() and its locals
    checked,    \* SpecCheck: the last validator call and its outcome
    coded,      \* SpecCode: a version prefix and a hash, their Base58Check text, its decoding
    grouped,    \* SpecGroups: widths and values, and what both packages' functions make of them
    packs       \* SpecPack: the calls of packAddressData made so far

bitsVars == <<data, packed, unpacked, strict>>
cashVars == <<prefix, payload, checksum, verified>>
objVars == <<heap, last>>
regVars == <<registry, accepted, regLast>>
raceVars == <<shared, threads>>
checkVars == <<checked>>
codeVars == <<coded>>
groupVars == <<grouped>>
packVars == <<packs>>
vars == <<data, packed, unpacked, strict, prefix, payload, checksum, verified, heap, last,
          registry, accepted, regLast, shared, threads, checked, coded,
          grouped, packs>>

\* No call of convertBits made yet.
None == [ok |-> FALSE, out |-> <<>>, called |-> FALSE]
\* The result r of a call, recorded as returned.
Returned(r) == [ok |-> r.ok, out |-> r.out, called |-> TRUE]
NoChecksum == [called |-> FALSE, out |-> <<>>]
NoVerdict  == [called |-> FALSE, ok |-> FALSE]
\* No call of the Address API made yet.
NoCall == [op |-> "none", chain |-> "", key |-> <<>>, main |-> FALSE, err |-> "nil",
           type |-> "nil", obj |-> 0, text |-> <<>>, fresh |-> FALSE, panic |-> FALSE]

\* No call of convertBits with pad = false made yet.
NoStrict == [called |-> FALSE, fromBits |-> 0, tobits |-> 0, ok |-> FALSE, out |-> <<>>]

\* The variables of a specification that is not the one running.
BitsIdle == data = <<>> /\ packed = None /\ unpacked = None /\ strict = NoStrict
CashIdle == prefix = <<>> /\ payload = <<>> /\ checksum = NoChecksum /\ verified = NoVerdict
ObjIdle  == heap = <<>> /\ last = NoCall
RegIdle  == registry = <<>> /\ accepted = <<>> /\ regLast = <<>>
RaceIdle == shared = <<>> /\ threads = <<>>
CheckIdle == checked = <<>>
CodeIdle == coded = <<>>
GroupIdle == grouped = <<>>
PackIdle == packs = <<>>

(***************************************************************************)
(* Bounds of the model.                                                    *)
(***************************************************************************)
MaxDataLen == 5
MaxPayloadLen == 4
MaxObjs == 1
MaxRegisterCalls == 3
MaxGoroutines == 2
MaxGroupLen == 3
MaxPacks == 2

\* The byte values multi-byte inputs are built from: every bit position of
\* a byte is set in one of them and clear in another.
ByteSamples == {0, 1, 85, 170, 255}

(***************************************************************************)
(* Machine arithmetic on non-negative integers.                            *)
(***************************************************************************)
Pow2(n) == 2 ^ n

Shl(x, n) == x * Pow2(n)
Shr(x, n) == x \div Pow2(n)

\* The bitwise operators, four bits at a time.
And4 == [a \in 0..15 |-> [b \in 0..15 |->
            ((a % 2) * (b % 2)) + 2 * (((a \div 2) % 2) * ((b \div 2) % 2))
            + 4 * (((a \div 4) % 2) * ((b \div 4) % 2)) + 8 * ((a \div 8) * (b \div 8))]]

Or4  == [a \in 0..15 |-> [b \in 0..15 |-> a + b - And4[a][b]]]
Xor4 == [a \in 0..15 |-> [b \in 0..15 |-> a + b - 2 * And4[a][b]]]

RECURSIVE BitAnd(_, _)
BitAnd(x, y) ==
    IF x = 0 \/ y = 0 THEN 0
    ELSE And4[x % 16][y % 16] + 16 * BitAnd(x \div 16, y \div 16)

RECURSIVE BitOr(_, _)
BitOr(x, y) ==
    IF x = 0 THEN y
    ELSE IF y = 0 THEN x
    ELSE Or4[x % 16][y % 16] + 16 * BitOr(x \div 16, y \div 16)

RECURSIVE BitXor(_, _)
BitXor(x, y) ==
    IF x = 0 THEN y
    ELSE IF y = 0 THEN x
    ELSE Xor4[x % 16][y % 16] + 16 * BitXor(x \div 16, y \div 16)

ToByte(x) == x % 256

Evaluated(x) == x = x

\* A local variable: F is the rest of the function, x the value assigned.
With(x, F(_)) == F(x)

\* b[from:to] in Go's notation.
Slice(b, from, to) == SubSeq(b, from + 1, to)

\* The number of leading elements of s equal to x.
LeadingCount(s, x) ==
    IF \A k \in 1..Len(s) : s[k] = x THEN Len(s)
    ELSE (CHOOSE k \in 1..Len(s) : s[k] # x /\ \A j \in 1..(k - 1) : s[j] = x) - 1

RECURSIVE SeqsUpTo(_, _)
SeqsUpTo(S, n) ==
    IF n = 0 THEN {<<>>}
    ELSE LET shorter == SeqsUpTo(S, n - 1)
         IN  shorter \cup {Append(s, x) : s \in {t \in shorter : Len(t) = n - 1}, x \in S}

(***************************************************************************)
(* package addressutil: convertBits (the encoder's copy).                  *)
(***************************************************************************)
\* The inner loop "for bits >= tobits": st = [acc, bits, ret].
RECURSIVE convertBitsEmit(_, _, _)
convertBitsEmit(st, tobits, maxv) ==
    IF st.bits >= tobits
    THEN convertBitsEmit(
             [acc  |-> st.acc,
              bits |-> st.bits - tobits,
              ret  |-> Append(st.ret, BitAnd(Shr(st.acc, st.bits - tobits), maxv))],
             tobits, maxv)
    ELSE st

Mut_convertBitsStep_NarrowMask(st, v, fromBits, tobits) ==
    LET maxv   == Shl(1, tobits) - 1
        maxAcc == Shl(1, fromBits + tobits - 2) - 1
        acc1   == BitAnd(BitOr(Shl(st.acc, fromBits), v), maxAcc)
    IN  convertBitsEmit([acc |-> acc1, bits |-> st.bits + fromBits, ret |-> st.ret],
                        tobits, maxv)

\* One iteration of the outer loop, on the value v.
convertBitsStep(st, v, fromBits, tobits) ==
    LET maxv   == Shl(1, tobits) - 1
        maxAcc == Shl(1, fromBits + tobits - 1) - 1
        acc1   == BitAnd(BitOr(Shl(st.acc, fromBits), v), maxAcc)
    IN  convertBitsEmit([acc |-> acc1, bits |-> st.bits + fromBits, ret |-> st.ret],
                        tobits, maxv)

\* The outer loop "for _, value := range uintArr" over d[lo..hi].
RECURSIVE convertBitsLoop(_, _, _, _, _, _)
convertBitsLoop(d, lo, hi, st, fromBits, tobits) ==
    IF lo > hi THEN st
    ELSE IF lo = hi THEN convertBitsStep(st, d[lo], fromBits, tobits)
    ELSE LET mid  == (lo + hi) \div 2
             half == convertBitsLoop(d, lo, mid, st, fromBits, tobits)
         IN  IF Evaluated(half) THEN convertBitsLoop(d, mid + 1, hi, half, fromBits, tobits) ELSE half

Mut_convertBits_NoPad(d, fromBits, tobits, pad) ==
    LET st == convertBitsLoop(d, 1, Len(d), [acc |-> 0, bits |-> 0, ret |-> <<>>],
                              fromBits, tobits)
    IN  [ok |-> TRUE, out |-> [k \in 1..Len(st.ret) |-> ToByte(st.ret[k])]]

convertBits(d, fromBits, tobits, pad) ==
    LET maxv == Shl(1, tobits) - 1
        st   == convertBitsLoop(d, 1, Len(d), [acc |-> 0, bits |-> 0, ret |-> <<>>],
                                fromBits, tobits)
        rest == BitAnd(Shl(st.acc, tobits - st.bits), maxv)
        ret  == IF pad /\ st.bits > 0 THEN Append(st.ret, rest) ELSE st.ret
    IN  IF ~pad /\ (st.bits >= fromBits \/ rest # 0)
        THEN [ok |-> FALSE, out |-> <<>>]
        ELSE [ok |-> TRUE, out |-> [k \in 1..Len(ret) |-> ToByte(ret[k])]]

(***************************************************************************)
(* package bchutil: convertBits (the decoder's copy).                      *)
(***************************************************************************)
RECURSIVE bchutil_convertBitsEmit(_, _, _)
bchutil_convertBitsEmit(st, tobits, maxv) ==
    IF st.bits >= tobits
    THEN bchutil_convertBitsEmit(
             [acc  |-> st.acc,
              bits |-> st.bits - tobits,
              ret  |-> Append(st.ret, BitAnd(Shr(st.acc, st.bits - tobits), maxv))],
             tobits, maxv)
    ELSE st

bchutil_convertBitsStep(st, v, fromBits, tobits) ==
    LET maxv   == Shl(1, tobits) - 1
        maxAcc == Shl(1, fromBits + tobits - 1) - 1
        acc1   == BitAnd(BitOr(Shl(st.acc, fromBits), v), maxAcc)
    IN  bchutil_convertBitsEmit([acc |-> acc1, bits |-> st.bits + fromBits, ret |-> st.ret],
                                tobits, maxv)

RECURSIVE bchutil_convertBitsLoop(_, _, _, _, _, _)
bchutil_convertBitsLoop(d, lo, hi, st, fromBits, tobits) ==
    IF lo > hi THEN st
    ELSE IF lo = hi THEN bchutil_convertBitsStep(st, d[lo], fromBits, tobits)
    ELSE LET mid  == (lo + hi) \div 2
             half == bchutil_convertBitsLoop(d, lo, mid, st, fromBits, tobits)
         IN  IF Evaluated(half) THEN bchutil_convertBitsLoop(d, mid + 1, hi, half, fromBits, tobits) ELSE half

Mut_bchutil_convertBits_NoRestCheck(d, fromBits, tobits, pad) ==
    LET maxv == Shl(1, tobits) - 1
        st   == bchutil_convertBitsLoop(d, 1, Len(d), [acc |-> 0, bits |-> 0, ret |-> <<>>],
                                        fromBits, tobits)
        rest == BitAnd(Shl(st.acc, tobits - st.bits), maxv)
        ret  == IF pad /\ st.bits > 0 THEN Append(st.ret, rest) ELSE st.ret
    IN  IF ~pad /\ st.bits >= fromBits
        THEN [ok |-> FALSE, out |-> <<>>]
        ELSE [ok |-> TRUE, out |-> [k \in 1..Len(ret) |-> ToByte(ret[k])]]

Mut_bchutil_convertBits_NoBitsCheck(d, fromBits, tobits, pad) ==
    LET maxv == Shl(1, tobits) - 1
        st   == bchutil_convertBitsLoop(d, 1, Len(d), [acc |-> 0, bits |-> 0, ret |-> <<>>],
                                        fromBits, tobits)
        rest == BitAnd(Shl(st.acc, tobits - st.bits), maxv)
        ret  == IF pad /\ st.bits > 0 THEN Append(st.ret, rest) ELSE st.ret
    IN  IF ~pad /\ rest # 0
        THEN [ok |-> FALSE, out |-> <<>>]
        ELSE [ok |-> TRUE, out |-> [k \in 1..Len(ret) |-> ToByte(ret[k])]]

bchutil_convertBits(d, fromBits, tobits, pad) ==
    LET maxv == Shl(1, tobits) - 1
        st   == bchutil_convertBitsLoop(d, 1, Len(d), [acc |-> 0, bits |-> 0, ret |-> <<>>],
                                        fromBits, tobits)
        rest == BitAnd(Shl(st.acc, tobits - st.bits), maxv)
        ret  == IF pad /\ st.bits > 0 THEN Append(st.ret, rest) ELSE st.ret
    IN  IF ~pad /\ (st.bits >= fromBits \/ rest # 0)
        THEN [ok |-> FALSE, out |-> <<>>]
        ELSE [ok |-> TRUE, out |-> [k \in 1..Len(ret) |-> ToByte(ret[k])]]

(***************************************************************************)
(* Texts.  A Go string is the sequence of its bytes.                       *)
(***************************************************************************)
STR_bitcoincash == <<98, 105, 116, 99, 111, 105, 110, 99, 97, 115, 104>>
STR_bchtest     == <<98, 99, 104, 116, 101, 115, 116>>
STR_bchreg      == <<98, 99, 104, 114, 101, 103>>
STR_bchsim      == <<98, 99, 104, 115, 105, 109>>

(***************************************************************************)
(* A uint64 below 2^40 is held as its eight 5-bit digits, most significant *)
(* first: digit 1 is bits 39..35, digit 8 is bits 4..0.                    *)
(***************************************************************************)
W40Zero == <<0, 0, 0, 0, 0, 0, 0, 0>>
W40One  == <<0, 0, 0, 0, 0, 0, 0, 1>>
\* XOR of two 5-bit digits, tabulated.
Xor5 == [a \in 0..31 |-> [b \in 0..31 |-> BitXor(a, b)]]
W40Xor(a, b) == <<Xor5[a[1]][b[1]], Xor5[a[2]][b[2]], Xor5[a[3]][b[3]], Xor5[a[4]][b[4]],
                  Xor5[a[5]][b[5]], Xor5[a[6]][b[6]], Xor5[a[7]][b[7]], Xor5[a[8]][b[8]]>>

\* The generators of polyMod.
GEN1 == <<19, 3, 25, 11, 25, 3, 19, 1>>     \* 0x98f2bc8e61
GEN2 == <<15, 6, 27, 22, 27, 6, 15, 2>>     \* 0x79b76d99e2
GEN3 == <<30, 12, 31, 5, 31, 12, 30, 4>>    \* 0xf33e5fb3c4
GEN4 == <<21, 24, 23, 10, 23, 24, 21, 8>>   \* 0xae2eabe2a8
GEN5 == <<3, 25, 7, 20, 7, 25, 3, 16>>      \* 0x1e4f43e470

(***************************************************************************)
(* package addressutil: cat, expandPrefix, polyMod, createChecksum.        *)
(***************************************************************************)
cat(x, y) == x \o y

expandPrefix(p) == [k \in 1..(Len(p) + 1) |-> IF k <= Len(p) THEN BitAnd(p[k], 31) ELSE 0]

Mut_polyModStep_MaskAfterShift(c, d) ==
    LET c0 == c[1]
        sh == <<0, c[3], c[4], c[5], c[6], c[7], c[8], 0>>
        x0 == W40Xor(sh, <<0, 0, 0, 0, 0, 0, 0, d % 32>>)
        x1 == IF BitAnd(c0, 1) > 0 THEN W40Xor(x0, GEN1) ELSE x0
        x2 == IF BitAnd(c0, 2) > 0 THEN W40Xor(x1, GEN2) ELSE x1
        x3 == IF BitAnd(c0, 4) > 0 THEN W40Xor(x2, GEN3) ELSE x2
        x4 == IF BitAnd(c0, 8) > 0 THEN W40Xor(x3, GEN4) ELSE x3
        x5 == IF BitAnd(c0, 16) > 0 THEN W40Xor(x4, GEN5) ELSE x4
    IN  x5

\* One iteration of polyMod's loop on the state c with the input byte d.
polyModStep(c, d) ==
    LET c0 == c[1]                                    \* uint8(c >> 35)
        sh == <<c[2], c[3], c[4], c[5], c[6], c[7], c[8], 0>>
        x0 == W40Xor(sh, <<0, 0, 0, 0, 0, 0, d \div 32, d % 32>>)
        x1 == IF BitAnd(c0, 1) > 0 THEN W40Xor(x0, GEN1) ELSE x0
        x2 == IF BitAnd(c0, 2) > 0 THEN W40Xor(x1, GEN2) ELSE x1
        x3 == IF BitAnd(c0, 4) > 0 THEN W40Xor(x2, GEN3) ELSE x2
        x4 == IF BitAnd(c0, 8) > 0 THEN W40Xor(x3, GEN4) ELSE x3
        x5 == IF BitAnd(c0, 16) > 0 THEN W40Xor(x4, GEN5) ELSE x4
    IN  x5

\* The loop "for _, d := range data" over v[lo..hi].
RECURSIVE polyModLoop(_, _, _, _)
polyModLoop(v, lo, hi, c) ==
    IF lo > hi THEN c
    ELSE IF lo = hi THEN polyModStep(c, v[lo])
    ELSE LET mid  == (lo + hi) \div 2
             half == polyModLoop(v, lo, mid, c)
         IN  IF Evaluated(half) THEN polyModLoop(v, mid + 1, hi, half) ELSE half

polyMod(v) == W40Xor(polyModLoop(v, 1, Len(v), W40One), W40One)

Mut_createChecksum_NoZeros(p, pl) ==
    LET mod == polyMod(cat(expandPrefix(p), pl))
    IN  [k \in 1..8 |-> ToByte(BitAnd(mod[k], 31))]

Mut_createChecksum_NoMask(p, pl) ==
    LET enc == cat(cat(expandPrefix(p), pl), <<0, 0, 0, 0, 0, 0, 0, 0>>)
        mod == polyMod(enc)
    IN  [k \in 1..8 |-> ToByte(IF k = 1 THEN mod[1] ELSE mod[k - 1] * 32 + mod[k])]

createChecksum(p, pl) ==
    LET enc == cat(cat(expandPrefix(p), pl), <<0, 0, 0, 0, 0, 0, 0, 0>>)
        mod == polyMod(enc)
    IN  [k \in 1..8 |-> ToByte(BitAnd(mod[k], 31))]

(***************************************************************************)
(* package bchutil: cat, expandPrefix, polyMod, verifyChecksum.            *)
(***************************************************************************)
bchutil_cat(x, y) == x \o y

bchutil_expandPrefix(p) ==
    [k \in 1..(Len(p) + 1) |-> IF k <= Len(p) THEN BitAnd(p[k], 31) ELSE 0]

Mut_bchutil_polyModStep_SwappedGenerators(c, d) ==
    LET c0 == c[1]
        sh == <<c[2], c[3], c[4], c[5], c[6], c[7], c[8], 0>>
        x0 == W40Xor(sh, <<0, 0, 0, 0, 0, 0, d \div 32, d % 32>>)
        x1 == IF BitAnd(c0, 1) > 0 THEN W40Xor(x0, GEN2) ELSE x0
        x2 == IF BitAnd(c0, 2) > 0 THEN W40Xor(x1, GEN1) ELSE x1
        x3 == IF BitAnd(c0, 4) > 0 THEN W40Xor(x2, GEN3) ELSE x2
        x4 == IF BitAnd(c0, 8) > 0 THEN W40Xor(x3, GEN4) ELSE x3
        x5 == IF BitAnd(c0, 16) > 0 THEN W40Xor(x4, GEN5) ELSE x4
    IN  x5

bchutil_polyModStep(c, d) ==
    LET c0 == c[1]                                    \* byte(c >> 35)
        sh == <<c[2], c[3], c[4], c[5], c[6], c[7], c[8], 0>>
        x0 == W40Xor(sh, <<0, 0, 0, 0, 0, 0, d \div 32, d % 32>>)
        x1 == IF BitAnd(c0, 1) > 0 THEN W40Xor(x0, GEN1) ELSE x0
        x2 == IF BitAnd(c0, 2) > 0 THEN W40Xor(x1, GEN2) ELSE x1
        x3 == IF BitAnd(c0, 4) > 0 THEN W40Xor(x2, GEN3) ELSE x2
        x4 == IF BitAnd(c0, 8) > 0 THEN W40Xor(x3, GEN4) ELSE x3
        x5 == IF BitAnd(c0, 16) > 0 THEN W40Xor(x4, GEN5) ELSE x4
    IN  x5

RECURSIVE bchutil_polyModLoop(_, _, _, _)
bchutil_polyModLoop(v, lo, hi, c) ==
    IF lo > hi THEN c
    ELSE IF lo = hi THEN bchutil_polyModStep(c, v[lo])
    ELSE LET mid  == (lo + hi) \div 2
             half == bchutil_polyModLoop(v, lo, mid, c)
         IN  IF Evaluated(half) THEN bchutil_polyModLoop(v, mid + 1, hi, half) ELSE half

bchutil_polyMod(v) == W40Xor(bchutil_polyModLoop(v, 1, Len(v), W40One), W40One)

Mut_verifyChecksum_Always(p, pl) == TRUE

Mut_verifyChecksum_LowDigit(p, pl) ==
    bchutil_polyMod(bchutil_cat(bchutil_expandPrefix(p), pl))[8] = 0

verifyChecksum(p, pl) == bchutil_polyMod(bchutil_cat(bchutil_expandPrefix(p), pl)) = W40Zero

(***************************************************************************)
(* The hash functions come from outside the repository (crypto/sha256,     *)
(* x/crypto/ripemd160, x/crypto/sha3).  They are deterministic functions   *)
(* from byte slices to digests of a fixed size; Digest stands for them,    *)
(* with one salt per function: a position-weighted sum of the bytes,       *)
(* spread over the digest.                                                 *)
(***************************************************************************)
RECURSIVE DigestSum(_, _, _)
DigestSum(b, lo, hi) ==
    IF lo > hi THEN 0
    ELSE IF lo = hi THEN ((b[lo] + 1) * (((lo * 7919) % 65521) + 1)) % 65521
    ELSE LET mid == (lo + hi) \div 2
         IN  (DigestSum(b, lo, mid) + DigestSum(b, mid + 1, hi)) % 65521

Digest(salt, b, n) ==
    LET h == (DigestSum(b, 1, Len(b)) * 31 + Len(b) * 257 + salt) % 65521
    IN  [k \in 1..n |-> (((h + 257 * k) * (2 * k + 7919)) \div 8) % 256]

\* A 65-byte key with the tag 0x04 of which the hashes are known:
\* 04 c2 (56 times) 54 61 3e 05 00 00 00 00.
KeyBase32 == <<4>> \o [k \in 1..56 |-> 194] \o <<84, 97, 62, 5, 0, 0, 0, 0>>

\* SHA-256 of KeyBase32, RIPEMD-160 of that, and SHA-256 and double SHA-256
\* of 0x6f followed by that.
KeyBase32_Sha ==
    <<195, 99, 120, 120, 159, 94, 162, 155, 155, 44, 61, 89, 114, 68, 169, 131,
      236, 75, 137, 37, 47, 25, 212, 81, 136, 66, 90, 241, 184, 196, 73, 173>>
KeyBase32_Hash160 ==
    <<231, 158, 56, 145, 33, 159, 172, 62, 147, 87, 53, 39, 251, 232, 95, 191,
      42, 125, 114, 146>>
KeyBase32_Sha1 ==
    <<166, 179, 46, 18, 167, 213, 138, 217, 161, 243, 103, 15, 11, 63, 255, 181,
      6, 94, 238, 77, 217, 123, 212, 207, 58, 10, 71, 38, 239, 226, 56, 84>>
KeyBase32_Sha2 ==
    <<228, 141, 32, 191, 210, 154, 216, 18, 50, 189, 107, 109, 41, 103, 185, 121,
      247, 140, 205, 205, 132, 81, 25, 80, 233, 68, 84, 236, 115, 216, 167, 56>>

\* The stand-ins agree with the functions where their values are known.
sha256_Sum256(b) ==
    CASE b = KeyBase32 -> KeyBase32_Sha
      [] b = <<111>> \o KeyBase32_Hash160 -> KeyBase32_Sha1
      [] b = KeyBase32_Sha1 -> KeyBase32_Sha2
      [] OTHER -> Digest(1, b, 32)

ripemd160_Sum(b) == IF b = KeyBase32_Sha THEN KeyBase32_Hash160 ELSE Digest(2, b, 20)
keccak256_Sum(b) == Digest(3, b, 32)

(***************************************************************************)
(* encoding/hex.                                                           *)
(***************************************************************************)
HexDigits == <<48, 49, 50, 51, 52, 53, 54, 55, 56, 57, 97, 98, 99, 100, 101, 102>>

hex_EncodeToString(b) ==
    [k \in 1..(2 * Len(b)) |->
        IF k % 2 = 1 THEN HexDigits[(b[(k + 1) \div 2] \div 16) + 1]
                     ELSE HexDigits[(b[k \div 2] % 16) + 1]]

(***************************************************************************)
(* package base58: Encode, Decode, CheckEncode, CheckDecode.               *)
(***************************************************************************)
\* "123456789ABCDEFGHJKLMNPQRSTUVWXYZabcdefghijkmnopqrstuvwxyz"
B58Alphabet ==
    <<49, 50, 51, 52, 53, 54, 55, 56, 57,
      65, 66, 67, 68, 69, 70, 71, 72, 74, 75, 76, 77, 78, 80, 81, 82, 83, 84, 85, 86, 87, 88, 89, 90,
      97, 98, 99, 100, 101, 102, 103, 104, 105, 106, 107, 109, 110, 111, 112, 113, 114, 115, 116,
      117, 118, 119, 120, 121, 122>>

\* The value of the character c, -1 when c is not in the alphabet.
B58Index == [c \in 0..255 |->
                IF \E k \in 1..58 : B58Alphabet[k] = c
                THEN (CHOOSE k \in 1..58 : B58Alphabet[k] = c) - 1
                ELSE -1]

(***************************************************************************)
(* Encode reads a byte slice as a big-endian number and writes its digits  *)
(* in base 58; Decode is the inverse.  The number is held in limbs, least  *)
(* significant first: limbs of 58^3 while bytes are pushed in (three       *)
(* digits each), limbs of 2^16 while digits are pushed in (two bytes       *)
(* each).  While values are pushed a limb may exceed its base by less than *)
(* the multiplier; the carries are settled once at the end.                *)
(***************************************************************************)
B58Limb == 58 * 58 * 58
ByteLimb == 256 * 256

\* The number limbs in base B, times m, plus x.
LimbPush(limbs, B, m, x) ==
    [i \in 1..Len(limbs) |->
        ((limbs[i] * m) % B) + (IF i = 1 THEN x ELSE (limbs[i - 1] * m) \div B)]

\* The values v[lo..hi] pushed into limbs, first to last.
RECURSIVE LimbFold(_, _, _, _, _, _)
LimbFold(v, lo, hi, limbs, B, m) ==
    IF lo > hi THEN limbs
    ELSE IF lo = hi THEN LimbPush(limbs, B, m, v[lo])
    ELSE LET mid  == (lo + hi) \div 2
             half == LimbFold(v, lo, mid, limbs, B, m)
         IN  IF Evaluated(half) THEN LimbFold(v, mid + 1, hi, half, B, m) ELSE half

\* The carries settled from limb i up: every limb below B.
RECURSIVE LimbCarry(_, _, _, _, _)
LimbCarry(limbs, B, i, carry, out) ==
    IF i > Len(limbs) THEN out
    ELSE LET cur == limbs[i] + carry
         IN  LimbCarry(limbs, B, i + 1, cur \div B, Append(out, cur % B))

\* s without its leading elements equal to x.
StripLeading(s, x) == Slice(s, LeadingCount(s, x), Len(s))

\* m limbs of 58^3 hold every number of n bytes: 58^(3(m-1)) > 256^n.
base58_Encode(b) ==
    LET m      == ((Len(b) * 137) \div 300) + 2
        limbs  == LimbCarry(LimbFold(b, 1, Len(b), [i \in 1..m |-> 0], B58Limb, 256),
                            B58Limb, 1, 0, <<>>)
        digits == [j \in 1..(3 * m) |->
                      LET limb == limbs[m - ((j - 1) \div 3)]
                      IN  CASE (j - 1) % 3 = 0 -> limb \div (58 * 58)
                            [] (j - 1) % 3 = 1 -> (limb \div 58) % 58
                            [] OTHER           -> limb % 58]
        kept   == StripLeading(digits, 0)
    IN  [k \in 1..LeadingCount(b, 0) |-> 49] \o [k \in 1..Len(kept) |-> B58Alphabet[kept[k] + 1]]

\* A character outside the alphabet gives the empty slice.  m limbs of 2^16
\* hold every number of n digits: 2^(16(m-1)) > 58^n.
base58_Decode(t) ==
    IF \E k \in 1..Len(t) : B58Index[t[k]] < 0 THEN <<>>
    ELSE LET m      == ((Len(t) * 733) \div 2000) + 2
             values == [k \in 1..Len(t) |-> B58Index[t[k]]]
             limbs  == LimbCarry(LimbFold(values, 1, Len(t), [i \in 1..m |-> 0], ByteLimb, 58),
                                 ByteLimb, 1, 0, <<>>)
             bytes  == [j \in 1..(2 * m) |->
                           LET limb == limbs[m - ((j - 1) \div 2)]
                           IN  IF (j - 1) % 2 = 0 THEN limb \div 256 ELSE limb % 256]
         IN  [k \in 1..LeadingCount(t, 49) |-> 0] \o StripLeading(bytes, 0)

base58_checksum(b) == Slice(sha256_Sum256(sha256_Sum256(b)), 0, 4)

base58_CheckEncode(input, version) ==
    LET b == <<version>> \o input
    IN  base58_Encode(b \o base58_checksum(b))

base58_CheckDecode(t) ==
    LET decoded == base58_Decode(t)
        n == Len(decoded)
    IN  IF n < 5 THEN [err |-> "ErrInvalidFormat", result |-> <<>>, version |-> 0]
        ELSE IF base58_checksum(Slice(decoded, 0, n - 4)) # Slice(decoded, n - 4, n)
        THEN [err |-> "ErrChecksum", result |-> <<>>, version |-> 0]
        ELSE [err |-> "nil", result |-> Slice(decoded, 1, n - 4), version |-> decoded[1]]

(***************************************************************************)
(* SpecCash: a checksum is created over a prefix and a payload, appended,  *)
(* and verified.                                                           *)
(***************************************************************************)
PrefixSamples == {STR_bitcoincash, STR_bchtest, STR_bchreg, <<>>, <<65, 49>>}

\* 5-bit groups multi-group payloads are built from.
GroupSamples == {0, 1, 10, 21, 31}

CashInputs == {<<g>> : g \in 0..31} \cup SeqsUpTo(GroupSamples, MaxPayloadLen)

CashInit ==
    /\ prefix \in PrefixSamples
    /\ payload \in CashInputs
    /\ checksum = NoChecksum
    /\ verified = NoVerdict
    /\ BitsIdle /\ ObjIdle /\ RegIdle /\ RaceIdle /\ CheckIdle /\ CodeIdle /\ GroupIdle /\ PackIdle

CreateChecksum ==
    /\ ~checksum.called
    /\ checksum' = [called |-> TRUE, out |-> createChecksum(prefix, payload)]
    /\ UNCHANGED <<prefix, payload, verified>>
    /\ UNCHANGED <<bitsVars, objVars, regVars, raceVars, checkVars, codeVars, groupVars, packVars>>

VerifyChecksum ==
    /\ checksum.called
    /\ ~verified.called
    /\ verified' = [called |-> TRUE, ok |-> verifyChecksum(prefix, cat(payload, checksum.out))]
    /\ UNCHANGED <<prefix, payload, checksum>>
    /\ UNCHANGED <<bitsVars, objVars, regVars, raceVars, checkVars, codeVars, groupVars, packVars>>

CashNext == CreateChecksum \/ VerifyChecksum

SpecCash == CashInit /\ [][CashNext]_vars

\* C2: a checksum created over (prefix, payload) and appended to the payload
\* verifies: polyMod over expandPrefix(prefix) ++ payload ++ checksum is 0.
C2_ChecksumVerifies ==
    verified.called => verified.ok

C2_Witness ==
    /\ verified.called
    /\ prefix = STR_bitcoincash
    /\ Len(payload) = MaxPayloadLen
    /\ \E k \in 1..8 : checksum.out[k] # 0

(***************************************************************************)
(* SpecBits: the repacker applied to byte slices, 8 -> 5 with padding as   *)
(* packAddressData does and 5 -> 8 without as checkDecodeCashAddress does. *)
(***************************************************************************)
BitsInputs ==
    {<<b>> : b \in 0..255} \cup SeqsUpTo(ByteSamples, MaxDataLen)

BitsInit ==
    /\ data \in BitsInputs
    /\ packed = None
    /\ unpacked = None
    /\ strict = NoStrict
    /\ CashIdle /\ ObjIdle /\ RegIdle /\ RaceIdle /\ CheckIdle /\ CodeIdle /\ GroupIdle /\ PackIdle

Pack ==
    /\ ~packed.called
    /\ packed' = Returned(convertBits(data, 8, 5, TRUE))
    /\ UNCHANGED <<data, unpacked, strict>>
    /\ UNCHANGED <<cashVars, objVars, regVars, raceVars, checkVars, codeVars, groupVars, packVars>>

Unpack ==
    /\ packed.called /\ packed.ok
    /\ ~unpacked.called
    /\ unpacked' = Returned(bchutil_convertBits(packed.out, 5, 8, FALSE))
    /\ UNCHANGED <<data, packed, strict>>
    /\ UNCHANGED <<cashVars, objVars, regVars, raceVars, checkVars, codeVars, groupVars, packVars>>

\* convertBits(data, 8, 5, false), the encoder's copy.
StrictPack ==
    /\ ~strict.called
    /\ \E r \in {convertBits(data, 8, 5, FALSE)} :
           strict' = [called |-> TRUE, fromBits |-> 8, tobits |-> 5, ok |-> r.ok, out |-> r.out]
    /\ UNCHANGED <<data, packed, unpacked>>
    /\ UNCHANGED <<cashVars, objVars, regVars, raceVars, checkVars, codeVars, groupVars, packVars>>

\* convertBits(data, 5, 8, false), the decoder's copy, as
\* checkDecodeCashAddress calls it: on values below 32.
StrictUnpack ==
    /\ ~strict.called
    /\ \A k \in 1..Len(data) : data[k] < 32
    /\ \E r \in {bchutil_convertBits(data, 5, 8, FALSE)} :
           strict' = [called |-> TRUE, fromBits |-> 5, tobits |-> 8, ok |-> r.ok, out |-> r.out]
    /\ UNCHANGED <<data, packed, unpacked>>
    /\ UNCHANGED <<cashVars, objVars, regVars, raceVars, checkVars, codeVars, groupVars, packVars>>

BitsNext == Pack \/ Unpack \/ StrictPack \/ StrictUnpack

SpecBits == BitsInit /\ [][BitsNext]_vars

\* C1: for every byte sequence, repacking 8 -> 5 with padding succeeds, and
\* repacking that result 5 -> 8 without padding succeeds and gives the
\* sequence back.
C1_RoundTrip ==
    /\ packed.called => packed.ok
    /\ unpacked.called => (unpacked.ok /\ unpacked.out = data)

C1_Witness ==
    /\ unpacked.called
    /\ Len(data) = 3
    /\ data[3] = 255
    /\ Len(packed.out) = 5

\* The bit at position n (from 0) of d read as a stream of fromBits-wide
\* big-endian values.
BitAt(d, fromBits, n) ==
    (d[(n \div fromBits) + 1] \div Pow2(fromBits - 1 - (n % fromBits))) % 2

\* The value of the w bits from position n on, most significant first.
RECURSIVE BitsValue(_, _, _, _)
BitsValue(d, fromBits, n, w) ==
    IF w = 0 THEN 0
    ELSE 2 * BitsValue(d, fromBits, n, w - 1) + BitAt(d, fromBits, n + w - 1)

\* C17: with pad = false, convertBits fails with the padding error exactly
\* when, after all input values are consumed, the number of leftover bits
\* is >= fromBits or the leftover bits are not all zero; in every other
\* case it succeeds and returns exactly the complete toBits-wide groups.
C17_StrictPadding ==
    strict.called =>
        LET total    == Len(data) * strict.fromBits
            complete == total \div strict.tobits
            leftover == total % strict.tobits
            fails    == \/ leftover >= strict.fromBits
                        \/ \E n \in (complete * strict.tobits)..(total - 1) :
                               BitAt(data, strict.fromBits, n) # 0
        IN  /\ strict.ok <=> ~fails
            /\ strict.ok =>
                  strict.out = [j \in 1..complete |->
                                   BitsValue(data, strict.fromBits, (j - 1) * strict.tobits,
                                             strict.tobits)]
            /\ ~strict.ok => strict.out = <<>>

C17_Witness ==
    /\ strict.called /\ strict.fromBits = 5 /\ ~strict.ok
    /\ data = <<0, 1>>

(***************************************************************************)
(* Public keys.                                                            *)
(***************************************************************************)
KeyValid    == <<4>> \o [k \in 1..64 |-> (k * 7 + 3) % 256]     \* 65 bytes, tag 0x04
KeyOffCurve == <<4>> \o [k \in 1..64 |-> (k * 11 + 5) % 256]    \* 65 bytes, tag 0x04, no curve point
KeyShort    == Slice(KeyValid, 0, 64)                           \* 64 bytes, tag 0x04
KeyBadTag   == <<2>> \o Slice(KeyValid, 1, 65)                  \* 65 bytes, tag 0x02
KeyEmpty    == <<>>                                             \* nil
KeyCompressed == <<2 + (KeyValid[65] % 2)>> \o Slice(KeyValid, 1, 33) \* 33 bytes, KeyValid compressed

KeySamples == {KeyValid, KeyOffCurve, KeyShort, KeyBadTag, KeyEmpty}

\* The points of the curve among the keys (package ecc decides this).
CurvePoints == {KeyValid, KeyCompressed}

ChainSamples == {"BTC", "ETH", "LTC", "BCH", "ETC", "OMNI", "TRON", "VDS", "EOS", "DOGE"}

BTC_MAIN_NET == 0
BTC_TEST_NET == 111
LTC_MAIN_NET == 48
LTC_TEST_NET == 111
BCH_MAIN_NET == 0
BCH_TEST_NET == 111

NoObj == [type |-> "nil", net |-> 0, prefix |-> <<>>, addr |-> <<>>, pubKey |-> <<>>]

(***************************************************************************)
(* BTCAddress.                                                             *)
(***************************************************************************)
NewBTCAddress(pubKey, main) ==
    IF Len(pubKey) # 65 \/ pubKey[1] # 4
    THEN [err |-> "ErrPublicKeyFormat", obj |-> NoObj, type |-> "BTCAddress"]
    ELSE [err |-> "nil",
          obj |-> [type |-> "BTCAddress", net |-> IF main THEN BTC_MAIN_NET ELSE BTC_TEST_NET,
                   prefix |-> <<>>, addr |-> <<>>, pubKey |-> pubKey],
          type |-> "BTCAddress"]

\* A String() method gives the text returned and the object as it is left.
Mut_BTCAddress_String_Append(a) ==
    LET h1 == sha256_Sum256(a.pubKey)
        h2 == ripemd160_Sum(h1)
        t  == a.addr \o base58_CheckEncode(h2, a.net)
    IN  [panic |-> FALSE, text |-> t, obj |-> [a EXCEPT !.addr = t]]

BTCAddress_String(a) ==
    IF a.addr # <<>>
    THEN [panic |-> FALSE, text |-> a.addr, obj |-> a]
    ELSE LET h1 == sha256_Sum256(a.pubKey)
             h2 == ripemd160_Sum(h1)
             t  == base58_CheckEncode(h2, a.net)
         IN  [panic |-> FALSE, text |-> t, obj |-> [a EXCEPT !.addr = t]]

(***************************************************************************)
(* LTCAddress.                                                             *)
(***************************************************************************)
NewLTCAddress(pubKey, main) ==
    [err |-> "nil",
     obj |-> [type |-> "LTCAddress", net |-> IF main THEN LTC_MAIN_NET ELSE LTC_TEST_NET,
              prefix |-> <<>>, addr |-> <<>>, pubKey |-> pubKey],
     type |-> "LTCAddress"]

LTCAddress_String(a) ==
    IF a.addr # <<>>
    THEN [panic |-> FALSE, text |-> a.addr, obj |-> a]
    ELSE LET ba == [type |-> "BTCAddress", net |-> a.net, prefix |-> <<>>, addr |-> <<>>,
                    pubKey |-> a.pubKey]
             t  == BTCAddress_String(ba).text
         IN  [panic |-> FALSE, text |-> t, obj |-> [a EXCEPT !.addr = t]]

(***************************************************************************)
(* BCHAddress.                                                             *)
(***************************************************************************)
NewBCHAddress(pubKey, main) ==
    IF Len(pubKey) # 65 \/ pubKey[1] # 4
    THEN [err |-> "ErrPublicKeyFormat", obj |-> NoObj, type |-> "BCHAddress"]
    ELSE [err |-> "nil",
          obj |-> [type |-> "BCHAddress", net |-> IF main THEN BCH_MAIN_NET ELSE BCH_TEST_NET,
                   prefix |-> IF main THEN STR_bitcoincash ELSE STR_bchtest,
                   addr |-> <<>>, pubKey |-> pubKey],
          type |-> "BCHAddress"]

BCHAddress_String(a) ==
    IF a.addr # <<>>
    THEN [panic |-> FALSE, text |-> a.addr, obj |-> a]
    ELSE LET ba == [type |-> "BTCAddress", net |-> a.net, prefix |-> <<>>, addr |-> <<>>,
                    pubKey |-> a.pubKey]
             t  == BTCAddress_String(ba).text
         IN  [panic |-> FALSE, text |-> t, obj |-> [a EXCEPT !.addr = t]]

(***************************************************************************)
(* ETHAddress.                                                             *)
(***************************************************************************)
NewETHAddress(pubKey) ==
    [err |-> "nil",
     obj |-> [type |-> "ETHAddress", net |-> 0, prefix |-> <<>>, addr |-> <<>>,
              pubKey |-> pubKey],
     type |-> "ETHAddress"]

Mut_ethCase_NoLetterTest(addrBytes, check) ==
    [k \in 1..Len(addrBytes) |-> IF check[k] >= 56 THEN addrBytes[k] - 32 ELSE addrBytes[k]]

\* The loop of ETHAddress.String: the character at i is made upper case when
\* check[i] >= '8' and addrBytes[i] >= 'a'.
ethCase(addrBytes, check) ==
    [k \in 1..Len(addrBytes) |->
        IF check[k] >= 56 /\ addrBytes[k] >= 97 THEN addrBytes[k] - 32 ELSE addrBytes[k]]

ETHAddress_String(a) ==
    IF a.addr # <<>>
    THEN [panic |-> FALSE, text |-> a.addr, obj |-> a]
    ELSE IF Len(a.pubKey) < 1
    THEN [panic |-> TRUE, text |-> <<>>, obj |-> a]          \* a.pubKey[1:] out of range
    ELSE LET b         == keccak256_Sum(Slice(a.pubKey, 1, Len(a.pubKey)))
             addrBytes == hex_EncodeToString(Slice(b, 12, 32))
             check     == hex_EncodeToString(keccak256_Sum(addrBytes))
         IN  [panic |-> FALSE, text |-> <<48, 120>> \o ethCase(addrBytes, check), obj |-> a]

(***************************************************************************)
(* TRONAddress.                                                            *)
(***************************************************************************)
tronAddrFromPub(pub) ==
    LET pubBytes == Slice(pub, 1, Len(pub))
        hashed   == keccak256_Sum(pubBytes)
        last20   == Slice(hashed, Len(hashed) - 20, Len(hashed))
        addr41   == <<65>> \o last20
        hash2562 == sha256_Sum256(sha256_Sum256(addr41))
        rawAddr  == addr41 \o Slice(hash2562, 0, 4)
    IN  base58_Encode(rawAddr)

NewTRONAddress(pubKey) ==
    IF Len(pubKey) # 65
    THEN [err |-> "ErrPublicKeyFormat", obj |-> NoObj, type |-> "TRONAddress"]
    ELSE [err |-> "nil",
          obj |-> [type |-> "TRONAddress", net |-> 0, prefix |-> <<>>,
                   addr |-> tronAddrFromPub(pubKey), pubKey |-> Slice(pubKey, 1, Len(pubKey))],
          type |-> "TRONAddress"]

TRONAddress_String(a) == [panic |-> FALSE, text |-> a.addr, obj |-> a]

(***************************************************************************)
(* VDSAddress.                                                             *)
(***************************************************************************)
P2PKHAddrId == <<16, 28>>

\* package ecc: a serialized key parses when its format is known and it is a
\* point of the curve.
ecc_ParsePubKey(pub) ==
    /\ \/ Len(pub) = 65 /\ pub[1] \in {4, 6, 7}
       \/ Len(pub) = 33 /\ pub[1] \in {2, 3}
    /\ pub \in CurvePoints

\* 0x02 or 0x03 by the parity of Y, then X.
ecc_SerializeCompressed(pub) ==
    <<2 + (pub[65] % 2)>> \o Slice(pub, 1, 33)

hash160_Hash160(b) == ripemd160_Sum(sha256_Sum256(b))

addrChecksum(input) == Slice(sha256_Sum256(sha256_Sum256(input)), 0, 4)

Mut_encodeAddr_ChecksumOfHash(addrHash, pre) ==
    IF Len(addrHash) # 20
    THEN [err |-> "incorrect hash length", text |-> <<>>]
    ELSE LET body == pre \o Slice(addrHash, 0, 20)
             chk  == addrChecksum(Slice(addrHash, 0, 20))
         IN  [err |-> "nil", text |-> base58_Encode(body \o Slice(chk, 0, 4))]

encodeAddr(addrHash, pre) ==
    IF Len(addrHash) # 20
    THEN [err |-> "incorrect hash length", text |-> <<>>]
    ELSE LET body == pre \o Slice(addrHash, 0, 20)
             chk  == addrChecksum(body)
         IN  [err |-> "nil", text |-> base58_Encode(body \o Slice(chk, 0, 4))]

VdsAddrFromPub(pub) ==
    IF ~ecc_ParsePubKey(pub)
    THEN [err |-> "ParsePubKey", text |-> <<>>]
    ELSE encodeAddr(Slice(hash160_Hash160(ecc_SerializeCompressed(pub)), 0, 20), P2PKHAddrId)

NewVDSAddress(pubKey) ==
    IF Len(pubKey) # 65 \/ pubKey[1] # 4
    THEN [err |-> "ErrPublicKeyFormat", obj |-> NoObj, type |-> "VDSAddress"]
    ELSE LET r == VdsAddrFromPub(pubKey)
         IN  IF r.err # "nil"
             THEN [err |-> r.err, obj |-> NoObj, type |-> "VDSAddress"]
             ELSE [err |-> "nil",
                   obj |-> [type |-> "VDSAddress", net |-> 0, prefix |-> <<>>,
                            addr |-> r.text, pubKey |-> pubKey],
                   type |-> "VDSAddress"]

VDSAddress_String(a) == [panic |-> FALSE, text |-> a.addr, obj |-> a]

(***************************************************************************)
(* NewAddress, and the methods of the Address interface.                   *)
(***************************************************************************)
\* The constructors return a pointer, NewAddress an interface value: type is
\* the dynamic type the interface holds ("nil" for the nil interface).
Mut_NewAddress_DefaultNil(chain, pubKey, main) ==
    CASE chain = "BTC"  -> NewBTCAddress(pubKey, main)
      [] chain = "ETH"  -> NewETHAddress(pubKey)
      [] chain = "LTC"  -> NewLTCAddress(pubKey, main)
      [] chain = "BCH"  -> NewBCHAddress(pubKey, main)
      [] chain = "ETC"  -> NewETHAddress(pubKey)
      [] chain = "OMNI" -> NewBTCAddress(pubKey, main)
      [] chain = "TRON" -> NewTRONAddress(pubKey)
      [] chain = "VDS"  -> NewVDSAddress(pubKey)
      [] OTHER          -> [err |-> "nil", obj |-> NoObj, type |-> "nil"]

NewAddress(chain, pubKey, main) ==
    CASE chain = "BTC"  -> NewBTCAddress(pubKey, main)
      [] chain = "ETH"  -> NewETHAddress(pubKey)
      [] chain = "LTC"  -> NewLTCAddress(pubKey, main)
      [] chain = "BCH"  -> NewBCHAddress(pubKey, main)
      [] chain = "ETC"  -> NewETHAddress(pubKey)
      [] chain = "OMNI" -> NewBTCAddress(pubKey, main)
      [] chain = "TRON" -> NewTRONAddress(pubKey)
      [] chain = "VDS"  -> NewVDSAddress(pubKey)
      [] OTHER          -> [err |-> "unsupport chain type", obj |-> NoObj, type |-> "nil"]

Address_String(a) ==
    CASE a.type = "BTCAddress"  -> BTCAddress_String(a)
      [] a.type = "LTCAddress"  -> LTCAddress_String(a)
      [] a.type = "BCHAddress"  -> BCHAddress_String(a)
      [] a.type = "ETHAddress"  -> ETHAddress_String(a)
      [] a.type = "TRONAddress" -> TRONAddress_String(a)
      [] a.type = "VDSAddress"  -> VDSAddress_String(a)

\* Every Url() is "return a.String()".
Address_Url(a) == Address_String(a)

(***************************************************************************)
(* Spec: Address objects are created by NewAddress and asked for their     *)
(* text by one caller at a time.                                           *)
(***************************************************************************)

Init ==
    /\ heap = <<>>
    /\ last = NoCall
    /\ BitsIdle /\ CashIdle /\ RegIdle /\ RaceIdle /\ CheckIdle /\ CodeIdle /\ GroupIdle /\ PackIdle

CallNewAddress(chain, pubKey, main) ==
    /\ ~last.panic
    /\ Len(heap) < MaxObjs
    /\ \E r \in {NewAddress(chain, pubKey, main)} :
           /\ heap' = IF r.obj = NoObj THEN heap ELSE Append(heap, r.obj)
           /\ last' = [NoCall EXCEPT !.op = "NewAddress", !.chain = chain, !.key = pubKey,
                                      !.main = main, !.err = r.err, !.type = r.type,
                                      !.obj = IF r.obj = NoObj THEN 0 ELSE Len(heap) + 1]
    /\ UNCHANGED <<bitsVars, cashVars, regVars, raceVars, checkVars, codeVars, groupVars, packVars>>

CallString(i) ==
    /\ ~last.panic
    /\ \E r \in {Address_String(heap[i])} :
           /\ heap' = [heap EXCEPT ![i] = r.obj]
           /\ last' = [NoCall EXCEPT !.op = "String", !.type = heap[i].type, !.obj = i,
                                      !.text = r.text, !.fresh = (heap[i].addr = <<>>),
                                      !.panic = r.panic]
    /\ UNCHANGED <<bitsVars, cashVars, regVars, raceVars, checkVars, codeVars, groupVars, packVars>>

CallUrl(i) ==
    /\ ~last.panic
    /\ \E r \in {Address_Url(heap[i])} :
           /\ heap' = [heap EXCEPT ![i] = r.obj]
           /\ last' = [NoCall EXCEPT !.op = "Url", !.type = heap[i].type, !.obj = i,
                                      !.text = r.text, !.fresh = (heap[i].addr = <<>>),
                                      !.panic = r.panic]
    /\ UNCHANGED <<bitsVars, cashVars, regVars, raceVars, checkVars, codeVars, groupVars, packVars>>

Next ==
    \/ \E chain \in ChainSamples, pubKey \in KeySamples, main \in BOOLEAN :
           CallNewAddress(chain, pubKey, main)
    \/ \E i \in DOMAIN heap : CallString(i)
    \/ \E i \in DOMAIN heap : CallUrl(i)

Spec == Init /\ [][Next]_vars


(***************************************************************************)
(* Claims about the Address objects.                                       *)
(***************************************************************************)
\* The variants whose String() computes the text on the first call.
LazyTypes == {"BTCAddress", "LTCAddress", "BCHAddress", "ETHAddress"}

\* C3: for BTCAddress, LTCAddress, BCHAddress and ETHAddress, the first
\* String() call on an object whose addr field is empty stores the text it
\* computed in the addr field: the object is Materialized when the call
\* returns.
C3_FirstStringMaterializes ==
    (last.op = "String" /\ last.fresh /\ ~last.panic /\ last.type \in LazyTypes)
        => (heap[last.obj].addr # <<>> /\ heap[last.obj].addr = last.text)

\* C4: an object whose addr field is non-empty keeps that value through every
\* String() and Url() call (and every other step), and each such call on it
\* returns that value.
C4_MaterializedStays ==
    [][\A i \in DOMAIN heap :
          heap[i].addr # <<>> =>
             /\ i \in DOMAIN heap'
             /\ heap'[i].addr = heap[i].addr
             /\ (last'.op \in {"String", "Url"} /\ last'.obj = i) => last'.text = heap[i].addr]_vars

C4_Witness ==
    /\ last.op = "Url"
    /\ ~last.fresh
    /\ heap[last.obj].type = "BTCAddress"
    /\ heap[last.obj].addr # <<>>
    /\ last.text = heap[last.obj].addr

\* The chains whose addresses are derived from a public key.
KeyChains == {"BTC", "OMNI", "LTC", "BCH", "ETH", "ETC", "TRON", "VDS"}

\* C9: for every key-based chain, NewAddress with a key whose length is not
\* 65 or whose first byte is not 0x04 fails with ErrPublicKeyFormat and
\* creates no object, so that no String() call ever fails on such a key.
C9_BadKeyRejected ==
    /\ (last.op = "NewAddress" /\ last.chain \in KeyChains
           /\ (Len(last.key) # 65 \/ last.key[1] # 4))
          => (last.err = "ErrPublicKeyFormat" /\ last.obj = 0)
    /\ ~last.panic

\* The constructor NewAddress hands a supported chain to.
ConstructorOf(chain, pubKey, main) ==
    IF chain \in {"BTC", "OMNI"} THEN NewBTCAddress(pubKey, main)
    ELSE IF chain = "LTC" THEN NewLTCAddress(pubKey, main)
    ELSE IF chain = "BCH" THEN NewBCHAddress(pubKey, main)
    ELSE IF chain \in {"ETH", "ETC"} THEN NewETHAddress(pubKey)
    ELSE IF chain = "TRON" THEN NewTRONAddress(pubKey)
    ELSE NewVDSAddress(pubKey)

\* C10: NewAddress returns a non-nil error and the nil Address for every
\* chain outside {BTC, ETH, LTC, BCH, ETC, OMNI, TRON, VDS}; for a chain
\* inside it returns an error exactly when the chain's constructor does, and
\* that error.
C10_ChainDispatch ==
    last.op = "NewAddress" =>
        IF last.chain \notin KeyChains
        THEN last.err # "nil" /\ last.type = "nil" /\ last.obj = 0
        ELSE last.err = ConstructorOf(last.chain, last.key, last.main).err

C10_Witness ==
    /\ last.op = "NewAddress"
    /\ last.chain = "DOGE"
    /\ last.err = "unsupport chain type"
    /\ heap = <<>>

(***************************************************************************)
(* The network registries of the three chaincfg packages (Bitcoin Cash,    *)
(* Bitcoin, Litecoin).  A BitcoinNet is a uint32, written as its four      *)
(* bytes, most significant first; an HD key id is a [4]byte.               *)
(***************************************************************************)
\* util.Params, the fields Register reads.
Params(net, pkh, sh, hdPriv, hdPub, hrp) ==
    [Net |-> net,
     PubKeyHashAddrID |-> pkh, ScriptHashAddrID |-> sh,
     LegacyPubKeyHashAddrID |-> pkh, LegacyScriptHashAddrID |-> sh,
     HDPrivateKeyID |-> hdPriv, HDPublicKeyID |-> hdPub,
     Bech32HRPSegwit |-> hrp, CashAddressPrefix |-> hrp]
\* package chaincfg of bchutil.
bchcfg_MainNet  == <<232, 243, 225, 227>>

bchcfg_MainNetParams ==
    Params(bchcfg_MainNet, 0, 5, <<4, 136, 173, 228>>, <<4, 136, 178, 30>>,
           <<98, 105, 116, 99, 111, 105, 110, 99, 97, 115, 104>>)

bchcfg_RegressionNetParams ==
    Params(<<250, 191, 181, 218>>, 111, 196, <<4, 53, 131, 148>>, <<4, 53, 135, 207>>,
           <<98, 99, 104, 114, 101, 103>>)

bchcfg_TestNet3Params ==
    Params(<<244, 243, 229, 244>>, 111, 196, <<4, 53, 131, 148>>, <<4, 53, 135, 207>>,
           <<98, 99, 104, 116, 101, 115, 116>>)

bchcfg_SimNetParams ==
    Params(<<18, 20, 28, 22>>, 63, 123, <<4, 32, 185, 0>>, <<4, 32, 189, 58>>,
           <<98, 99, 104, 115, 105, 109>>)

\* package chaincfg of btcutil.

btccfg_MainNetParams ==
    Params(<<217, 180, 190, 249>>, 0, 5, <<4, 136, 173, 228>>, <<4, 136, 178, 30>>,
           <<98, 99>>)

btccfg_RegressionNetParams ==
    Params(<<218, 181, 191, 250>>, 111, 196, <<4, 53, 131, 148>>, <<4, 53, 135, 207>>,
           <<98, 99, 114, 116>>)

btccfg_TestNet3Params ==
    Params(<<7, 9, 17, 11>>, 111, 196, <<4, 53, 131, 148>>, <<4, 53, 135, 207>>,
           <<116, 98>>)

btccfg_SimNetParams ==
    Params(<<18, 20, 28, 22>>, 63, 123, <<4, 32, 185, 0>>, <<4, 32, 189, 58>>,
           <<115, 98>>)

\* package chaincfg of ltcutil.

ltccfg_MainNetParams ==
    Params(<<219, 182, 192, 251>>, 48, 50, <<4, 136, 173, 228>>, <<4, 136, 178, 30>>,
           <<108, 116, 99>>)

ltccfg_RegressionNetParams ==
    Params(<<218, 181, 191, 250>>, 111, 196, <<4, 53, 131, 148>>, <<4, 53, 135, 207>>,
           <<116, 108, 116, 99>>)

ltccfg_TestNet4Params ==
    Params(<<241, 200, 210, 253>>, 111, 58, <<4, 53, 131, 148>>, <<4, 53, 135, 207>>,
           <<116, 108, 116, 99>>)

ltccfg_SimNetParams ==
    Params(<<18, 20, 28, 22>>, 63, 123, <<4, 32, 185, 0>>, <<4, 32, 189, 58>>,
           <<115, 108, 116, 99>>)

\* The maps of a package, all empty: sets for the maps to struct{}, a
\* function for hdPrivToPubKeyIDs.
NoRegistry ==
    [registeredNets |-> {}, pubKeyHashAddrIDs |-> {}, scriptHashAddrIDs |-> {},
     prefixes |-> {}, hdPrivToPubKeyIDs |-> <<>>]

\* m[k] = v on a Go map.
MapPut(m, k, v) == [x \in (DOMAIN m) \cup {k} |-> IF x = k THEN v ELSE m[x]]

\* Register of bchutil/chaincfg on the maps reg: the error returned and the
\* maps as they are left.
Mut_bchcfg_Register_NoCheck(reg, params) ==
    [err |-> "nil",
     reg |-> [registeredNets    |-> reg.registeredNets \cup {params.Net},
              pubKeyHashAddrIDs |-> reg.pubKeyHashAddrIDs \cup {params.LegacyPubKeyHashAddrID},
              scriptHashAddrIDs |-> reg.scriptHashAddrIDs \cup {params.LegacyScriptHashAddrID},
              prefixes          |-> reg.prefixes \cup {params.CashAddressPrefix \o <<58>>},
              hdPrivToPubKeyIDs |-> MapPut(reg.hdPrivToPubKeyIDs, params.HDPrivateKeyID,
                                           params.HDPublicKeyID)]]

bchcfg_Register(reg, params) ==
    IF params.Net \in reg.registeredNets
    THEN [err |-> "ErrDuplicateNet", reg |-> reg]
    ELSE [err |-> "nil",
          reg |-> [registeredNets    |-> reg.registeredNets \cup {params.Net},
                   pubKeyHashAddrIDs |-> reg.pubKeyHashAddrIDs \cup {params.LegacyPubKeyHashAddrID},
                   scriptHashAddrIDs |-> reg.scriptHashAddrIDs \cup {params.LegacyScriptHashAddrID},
                   prefixes          |-> reg.prefixes \cup {params.CashAddressPrefix \o <<58>>},
                   hdPrivToPubKeyIDs |-> MapPut(reg.hdPrivToPubKeyIDs, params.HDPrivateKeyID,
                                                params.HDPublicKeyID)]]

\* Register of btcutil/chaincfg; the prefix set is bech32SegwitPrefixes.
btccfg_Register(reg, params) ==
    IF params.Net \in reg.registeredNets
    THEN [err |-> "ErrDuplicateNet", reg |-> reg]
    ELSE [err |-> "nil",
          reg |-> [registeredNets    |-> reg.registeredNets \cup {params.Net},
                   pubKeyHashAddrIDs |-> reg.pubKeyHashAddrIDs \cup {params.PubKeyHashAddrID},
                   scriptHashAddrIDs |-> reg.scriptHashAddrIDs \cup {params.ScriptHashAddrID},
                   prefixes          |-> reg.prefixes \cup {params.Bech32HRPSegwit \o <<49>>},
                   hdPrivToPubKeyIDs |-> MapPut(reg.hdPrivToPubKeyIDs, params.HDPrivateKeyID,
                                                params.HDPublicKeyID)]]

\* Register of ltcutil/chaincfg.
ltccfg_Register(reg, params) ==
    IF params.Net \in reg.registeredNets
    THEN [err |-> "ErrDuplicateNet", reg |-> reg]
    ELSE [err |-> "nil",
          reg |-> [registeredNets    |-> reg.registeredNets \cup {params.Net},
                   pubKeyHashAddrIDs |-> reg.pubKeyHashAddrIDs \cup {params.PubKeyHashAddrID},
                   scriptHashAddrIDs |-> reg.scriptHashAddrIDs \cup {params.ScriptHashAddrID},
                   prefixes          |-> reg.prefixes \cup {params.Bech32HRPSegwit \o <<49>>},
                   hdPrivToPubKeyIDs |-> MapPut(reg.hdPrivToPubKeyIDs, params.HDPrivateKeyID,
                                                params.HDPublicKeyID)]]

Packages == {"bch", "btc", "ltc"}

RegisterOf(pkg, reg, params) ==
    CASE pkg = "bch" -> bchcfg_Register(reg, params)
      [] pkg = "btc" -> btccfg_Register(reg, params)
      [] pkg = "ltc" -> ltccfg_Register(reg, params)

\* The parameters each package's init() registers, in its order.
InitParams(pkg) ==
    CASE pkg = "bch" -> <<bchcfg_MainNetParams, bchcfg_TestNet3Params,
                          bchcfg_RegressionNetParams, bchcfg_SimNetParams>>
      [] pkg = "btc" -> <<btccfg_MainNetParams, btccfg_TestNet3Params,
                          btccfg_RegressionNetParams, btccfg_SimNetParams>>
      [] pkg = "ltc" -> <<ltccfg_MainNetParams, ltccfg_TestNet4Params,
                          ltccfg_RegressionNetParams, ltccfg_SimNetParams>>

\* mustRegister panics on an error; init() runs to its end only when each of
\* its registrations is accepted.
RECURSIVE mustRegisterAll(_, _, _, _)
mustRegisterAll(pkg, ps, k, st) ==
    IF k > Len(ps) \/ st.panic THEN st
    ELSE LET r == RegisterOf(pkg, st.reg, ps[k])
         IN  mustRegisterAll(pkg, ps, k + 1, [reg |-> r.reg, panic |-> r.err # "nil"])

PackageInit(pkg) == mustRegisterAll(pkg, InitParams(pkg), 1, [reg |-> NoRegistry, panic |-> FALSE])

(***************************************************************************)
(* SpecReg: after the packages' init(), the host registers further         *)
(* networks.                                                               *)
(***************************************************************************)
\* A network of the host's own, and identifiers no default network uses.
HostNet == <<1, 2, 3, 4>>

\* What the host registers: the package's own defaults again, a new network,
\* a new network that reuses a default's HD private key id, and parameters
\* that differ from the main network's in everything but the Net.
RegisterInputs(pkg) ==
    LET defaults == InitParams(pkg)
        main     == defaults[1]
    IN  {defaults[k] : k \in 1..Len(defaults)} \cup
        {Params(HostNet, 153, 154, <<9, 9, 9, 9>>, <<8, 8, 8, 8>>, <<120, 120>>),
         Params(HostNet, 155, 156, main.HDPrivateKeyID, <<7, 7, 7, 7>>, <<121>>),
         Params(main.Net, 157, 158, <<6, 6, 6, 6>>, <<5, 5, 5, 5>>, <<122>>)}

NetSamples(pkg) == {p.Net : p \in RegisterInputs(pkg)}

NoRegister == [calls |-> 0, pkg |-> "", params |-> <<>>, err |-> "nil"]

RegInit ==
    /\ \A pkg \in Packages : ~PackageInit(pkg).panic
    /\ registry = [pkg \in Packages |-> PackageInit(pkg).reg]
    /\ accepted = [pkg \in Packages |->
                      [n \in NetSamples(pkg) |->
                          IF n \in PackageInit(pkg).reg.registeredNets THEN 1 ELSE 0]]
    /\ regLast = NoRegister
    /\ BitsIdle /\ CashIdle /\ ObjIdle /\ RaceIdle /\ CheckIdle /\ CodeIdle /\ GroupIdle /\ PackIdle

CallRegister(pkg, params) ==
    /\ regLast.calls < MaxRegisterCalls
    /\ \E r \in {RegisterOf(pkg, registry[pkg], params)} :
           /\ registry' = [registry EXCEPT ![pkg] = r.reg]
           /\ accepted' = IF r.err = "nil"
                          THEN [accepted EXCEPT ![pkg][params.Net] = @ + 1]
                          ELSE accepted
           /\ regLast' = [calls |-> regLast.calls + 1, pkg |-> pkg, params |-> params,
                          err |-> r.err]
    /\ UNCHANGED <<bitsVars, cashVars, objVars, raceVars, checkVars, codeVars, groupVars, packVars>>

RegNext == \E pkg \in Packages : \E params \in RegisterInputs(pkg) : CallRegister(pkg, params)

SpecReg == RegInit /\ [][RegNext]_vars

\* C8: Register returns the duplicate-network error when params.Net is
\* already registered and then leaves every map of the registry as it was;
\* through any sequence of Register calls each Net is accepted at most once.
C8_DuplicateRejected ==
    [][regLast'.calls # regLast.calls =>
          LET pkg == regLast'.pkg
              net == regLast'.params.Net
          IN  /\ net \in registry[pkg].registeredNets
                    => (regLast'.err = "ErrDuplicateNet" /\ registry' = registry)
              /\ \A n \in NetSamples(pkg) : accepted'[pkg][n] <= 1]_vars

C8_Witness ==
    /\ regLast.calls = 2
    /\ regLast.pkg = "bch"
    /\ regLast.err = "ErrDuplicateNet"
    /\ regLast.params.Net = bchcfg_MainNet
    /\ regLast.params.LegacyPubKeyHashAddrID \notin registry["bch"].pubKeyHashAddrIDs
    /\ HostNet \in registry["bch"].registeredNets

(***************************************************************************)
(* SpecRace: goroutines call String() on one object without                *)
(* synchronisation.  The addr field is a Go string: a pointer word and a   *)
(* length word.  Nothing orders the two loads of a read or the two stores  *)
(* of an assignment, and nothing makes them one step: each word access is  *)
(* an action, taken in either order.  A pointer is 0 (nil) or the number   *)
(* of the goroutine whose buffer it points to.                             *)
(***************************************************************************)
Goroutines == 1..MaxGoroutines

Words == {"ptr", "len"}

\* The objects shared: made by NewAddress from a valid key, never yet asked
\* for their text.
RaceObjects ==
    {NewAddress(chain, KeyValid, main).obj : chain \in {"BTC", "BCH", "LTC"}, main \in BOOLEAN}

\* What a single sequential call of String() returns on the shared object.
SequentialText == Address_String(shared.obj).text

Idle == [pc |-> "idle", loaded |-> {}, ptr |-> 0, len |-> 0, buf |-> <<>>, stored |-> {},
         ret |-> [ptr |-> 0, len |-> 0]]

RaceInit ==
    /\ \E o \in RaceObjects : shared = [obj |-> o, ptr |-> 0, len |-> 0]
    /\ threads = [g \in Goroutines |-> Idle]
    /\ BitsIdle /\ CashIdle /\ ObjIdle /\ RegIdle /\ CheckIdle /\ CodeIdle /\ GroupIdle /\ PackIdle

\* The goroutine g enters String().
Enter(g) ==
    /\ threads[g].pc = "idle"
    /\ threads' = [threads EXCEPT ![g].pc = "guard"]
    /\ UNCHANGED shared
    /\ UNCHANGED <<bitsVars, cashVars, objVars, regVars, checkVars, codeVars, groupVars, packVars>>

\* One word of a.addr is loaded: for the guard, or for "return a.addr".
Load(g, w) ==
    /\ threads[g].pc \in {"guard", "return"}
    /\ w \notin threads[g].loaded
    /\ threads' = [threads EXCEPT ![g].loaded = @ \cup {w},
                                  ![g].ptr = IF w = "ptr" THEN shared.ptr ELSE @,
                                  ![g].len = IF w = "len" THEN shared.len ELSE @]
    /\ UNCHANGED shared
    /\ UNCHANGED <<bitsVars, cashVars, objVars, regVars, checkVars, codeVars, groupVars, packVars>>

\* if a.addr != "": a string is empty when its length is 0.
Guard(g) ==
    /\ threads[g].pc = "guard"
    /\ threads[g].loaded = Words
    /\ threads' = [threads EXCEPT ![g].pc = IF threads[g].len # 0 THEN "return" ELSE "compute",
                                  ![g].loaded = {}]
    /\ UNCHANGED shared
    /\ UNCHANGED <<bitsVars, cashVars, objVars, regVars, checkVars, codeVars, groupVars, packVars>>

\* The text is computed into a buffer of the goroutine's own.
Compute(g) ==
    /\ threads[g].pc = "compute"
    /\ threads' = [threads EXCEPT ![g].pc = "assign", ![g].buf = SequentialText]
    /\ UNCHANGED shared
    /\ UNCHANGED <<bitsVars, cashVars, objVars, regVars, checkVars, codeVars, groupVars, packVars>>

\* One word of "a.addr = ..." is stored.
Store(g, w) ==
    /\ threads[g].pc = "assign"
    /\ w \notin threads[g].stored
    /\ shared' = IF w = "ptr" THEN [shared EXCEPT !.ptr = g]
                              ELSE [shared EXCEPT !.len = Len(threads[g].buf)]
    /\ threads' = [threads EXCEPT ![g].stored = @ \cup {w},
                                  ![g].pc = IF threads[g].stored \cup {w} = Words
                                            THEN "return" ELSE "assign"]
    /\ UNCHANGED <<bitsVars, cashVars, objVars, regVars, checkVars, codeVars, groupVars, packVars>>

\* return a.addr: the string loaded is handed to the caller.
Return(g) ==
    /\ threads[g].pc = "return"
    /\ threads[g].loaded = Words
    /\ threads' = [threads EXCEPT ![g].pc = "done",
                                  ![g].ret = [ptr |-> threads[g].ptr, len |-> threads[g].len]]
    /\ UNCHANGED shared
    /\ UNCHANGED <<bitsVars, cashVars, objVars, regVars, checkVars, codeVars, groupVars, packVars>>

RaceNext ==
    \E g \in Goroutines :
        \/ Enter(g)
        \/ \E w \in Words : Load(g, w)
        \/ Guard(g)
        \/ Compute(g)
        \/ \E w \in Words : Store(g, w)
        \/ Return(g)

SpecRace == RaceInit /\ [][RaceNext]_vars

\* The text a string header denotes: len bytes at ptr.  A header with a
\* length and no pointer denotes no text; reading it is a fault.
TextOf(s) ==
    IF s.len = 0 THEN [fault |-> FALSE, text |-> <<>>]
    ELSE IF s.ptr = 0 THEN [fault |-> TRUE, text |-> <<>>]
    ELSE [fault |-> FALSE, text |-> Slice(threads[s.ptr].buf, 0, s.len)]

\* C5: when goroutines call String() concurrently on the same object with
\* an empty addr field, under every interleaving of their loads and stores
\* of the field each call returns the text a single sequential call
\* returns, and when all have returned the field holds that text.
C5_RacingCallsAgree ==
    /\ \A g \in Goroutines :
          threads[g].pc = "done" =>
              TextOf(threads[g].ret) = [fault |-> FALSE, text |-> SequentialText]
    /\ (\A g \in Goroutines : threads[g].pc = "done") =>
          TextOf(shared) = [fault |-> FALSE, text |-> SequentialText]

(***************************************************************************)
(* package addressutil: the CashAddr encoder.                              *)
(***************************************************************************)
\* "qpzry9x8gf2tvdw0s3jn54khce6mua7l"
bchBase32Encoder == <<113, 112, 122, 114, 121, 57, 120, 56, 103, 102, 50, 116, 118, 100, 119, 48, 115, 51, 106, 110, 53, 52, 107, 104, 99, 101, 54, 109, 117, 97, 55, 108>>

AddrTypePayToPubKeyHash == 0
AddrTypePayToScriptHash == 1

\* (uint(len(addrHash)) - 20) / 4: below 20 the subtraction wraps around to
\* a uint above every size the code accepts.
encodedSizeOf(n) == IF n >= 20 THEN (n - 20) \div 4 ELSE Pow2(30)

\* Go's % takes the sign of the dividend.
GoRem(x, m) == IF x >= 0 THEN x % m ELSE 0 - ((0 - x) % m)

packAddressData(addrType, addrHash) ==
    IF addrType # AddrTypePayToPubKeyHash /\ addrType # AddrTypePayToScriptHash
    THEN [err |-> "invalid AddressType", data |-> <<>>]
    ELSE IF GoRem(Len(addrHash) - 20, 4) # 0
    THEN [err |-> "invalid address hash size", data |-> <<>>]
    ELSE IF encodedSizeOf(Len(addrHash)) > 8
    THEN [err |-> "encoded size out of valid range", data |-> <<>>]
    ELSE LET versionByte == BitOr(Shl(addrType, 3), encodedSizeOf(Len(addrHash)))
             r == convertBits(<<ToByte(versionByte)>> \o addrHash, 8, 5, TRUE)
         IN  IF ~r.ok THEN [err |-> "encoding padding error", data |-> <<>>]
             ELSE [err |-> "nil", data |-> r.out]

encode(pre, pl) ==
    With(cat(pl, createChecksum(pre, pl)),
         LAMBDA combined : [k \in 1..Len(combined) |-> bchBase32Encoder[combined[k] + 1]])

checkEncodeCashAddress(input, pre, t) ==
    LET k == packAddressData(t, input)
    IN  IF k.err # "nil" THEN <<>> ELSE encode(pre, k.data)

Mut_CashAddress_MainPrefix(addr) ==
    LET r == base58_CheckDecode(addr)
    IN  IF r.err # "nil" THEN [err |-> r.err, text |-> <<>>]
        ELSE [err |-> "nil",
              text |-> STR_bitcoincash \o <<58>>
                          \o checkEncodeCashAddress(r.result, STR_bitcoincash,
                                                    AddrTypePayToPubKeyHash)]

\* The error of the default case is made and dropped: the prefix stays "".
CashAddress(addr) ==
    LET r == base58_CheckDecode(addr)
        pre == CASE r.version = BCH_MAIN_NET -> STR_bitcoincash
                 [] r.version = BCH_TEST_NET -> STR_bchtest
                 [] OTHER -> <<>>
    IN  IF r.err # "nil" THEN [err |-> r.err, text |-> <<>>]
        ELSE [err |-> "nil",
              text |-> pre \o <<58>> \o checkEncodeCashAddress(r.result, pre, AddrTypePayToPubKeyHash)]

(***************************************************************************)
(* package bchutil: the CashAddr decoder and DecodeAddress.                *)
(***************************************************************************)
\* CharsetRev[c] for the byte c, -1 where c is no symbol of the alphabet.
CharsetRevTable ==
    <<
      -1, -1, -1, -1, -1, -1, -1, -1, -1, -1, -1, -1, -1, -1, -1, -1,
      -1, -1, -1, -1, -1, -1, -1, -1, -1, -1, -1, -1, -1, -1, -1, -1,
      -1, -1, -1, -1, -1, -1, -1, -1, -1, -1, -1, -1, -1, -1, -1, -1,
      15, -1, 10, 17, 21, 20, 26, 30,  7,  5, -1, -1, -1, -1, -1, -1,
      -1, 29, -1, 24, 13, 25,  9,  8, 23, -1, 18, 22, 31, 27, 19, -1,
       1,  0,  3, 16, 11, 28, 12, 14,  6,  4,  2, -1, -1, -1, -1, -1,
      -1, 29, -1, 24, 13, 25,  9,  8, 23, -1, 18, 22, 31, 27, 19, -1,
       1,  0,  3, 16, 11, 28, 12, 14,  6,  4,  2, -1, -1, -1, -1, -1
    >>

CharsetRev == [c \in 0..127 |-> CharsetRevTable[c + 1]]

lowerCase(c) == BitOr(c, 32)

NoScan == [lower |-> FALSE, upper |-> FALSE, prefixSize |-> 0, err |-> "nil"]

\* One turn of DecodeCashAddress's first loop, on the byte c at index i
\* (from 0); after a return the remaining turns do nothing.
scanStep(st, c, i) ==
    IF st.err # "nil" THEN st
    ELSE IF c >= 97 /\ c <= 122 THEN [st EXCEPT !.lower = TRUE]
    ELSE IF c >= 65 /\ c <= 90 THEN [st EXCEPT !.upper = TRUE]
    ELSE IF c >= 48 /\ c <= 57
    THEN IF st.prefixSize = 0
         THEN [st EXCEPT !.err = "addresses cannot have numbers in the prefix"]
         ELSE st
    ELSE IF c = 58
    THEN IF i = 0 \/ st.prefixSize # 0
         THEN [st EXCEPT !.err = "the separator must not be the first character"]
         ELSE [st EXCEPT !.prefixSize = i]
    ELSE [st EXCEPT !.err = "unexpected character"]

RECURSIVE scanLoop(_, _, _, _)
scanLoop(str, lo, hi, st) ==
    IF lo > hi THEN st
    ELSE IF lo = hi THEN scanStep(st, str[lo], lo - 1)
    ELSE LET mid  == (lo + hi) \div 2
             half == scanLoop(str, lo, mid, st)
         IN  IF Evaluated(half) THEN scanLoop(str, mid + 1, hi, half) ELSE half

\* panic: values[:len(values)-8] with fewer than eight values.
DecodeCashAddress(str) ==
    LET st         == scanLoop(str, 1, Len(str), NoScan)
        prefixSize == st.prefixSize
        pre        == [i \in 1..prefixSize |-> lowerCase(str[i])]
        valuesSize == Len(str) - 1 - prefixSize
        Fail(e)    == [panic |-> FALSE, err |-> e, prefix |-> <<>>, data |-> <<>>]
    IN  IF st.err # "nil" THEN Fail(st.err)
        ELSE IF prefixSize = 0 THEN Fail("address must have a prefix")
        ELSE IF st.upper /\ st.lower
        THEN Fail("addresses cannot use both upper and lower case characters")
        ELSE IF \E i \in 1..valuesSize :
                    str[i + prefixSize + 1] > 127 \/ CharsetRev[str[i + prefixSize + 1]] = -1
        THEN Fail("invalid character")
        ELSE LET values == [i \in 1..valuesSize |-> CharsetRev[str[i + prefixSize + 1]]]
             IN  IF ~verifyChecksum(pre, values) THEN Fail("ErrChecksumMismatch")
                 ELSE IF Len(values) < 8
                 THEN [panic |-> TRUE, err |-> "nil", prefix |-> pre, data |-> <<>>]
                 ELSE [panic |-> FALSE, err |-> "nil", prefix |-> pre,
                       data |-> Slice(values, 0, Len(values) - 8)]

\* t is the named result: it stays AddrTypePayToPubKeyHash (0) when the
\* version byte is neither 0x00 nor 0x08.
checkDecodeCashAddress(input) ==
    With(DecodeCashAddress(input), LAMBDA d :
        LET Fail(e) == [panic |-> FALSE, err |-> e, result |-> <<>>, prefix |-> d.prefix,
                        t |-> AddrTypePayToPubKeyHash]
        IN  IF d.panic THEN [Fail("nil") EXCEPT !.panic = TRUE]
            ELSE IF d.err # "nil" THEN Fail(d.err)
            ELSE With(bchutil_convertBits(d.data, 5, 8, FALSE), LAMBDA c :
                     IF ~c.ok THEN Fail("encoding padding error")
                     ELSE IF Len(c.out) # 21 THEN Fail("incorrect data length")
                     ELSE [panic |-> FALSE, err |-> "nil", result |-> Slice(c.out, 1, 21),
                           prefix |-> d.prefix,
                           t |-> IF c.out[1] = 8 THEN AddrTypePayToScriptHash
                                 ELSE AddrTypePayToPubKeyHash]))

(***************************************************************************)
(* package bchutil: addresses and DecodeAddress.  A *util.Params is named  *)
(* by the variable it points to.                                           *)
(***************************************************************************)
bchcfg_ParamsAt(net) ==
    CASE net = "MainNetParams"       -> bchcfg_MainNetParams
      [] net = "TestNet3Params"      -> bchcfg_TestNet3Params
      [] net = "RegressionNetParams" -> bchcfg_RegressionNetParams
      [] net = "SimNetParams"        -> bchcfg_SimNetParams

\* The map filled by init().
Prefixes ==
    [MainNetParams |-> STR_bitcoincash, TestNet3Params |-> STR_bchtest,
     RegressionNetParams |-> STR_bchreg, SimNetParams |-> STR_bchsim]

bchcfg_IsPubKeyHashAddrID(id) == id \in registry["bch"].pubKeyHashAddrIDs
bchcfg_IsScriptHashAddrID(id) == id \in registry["bch"].scriptHashAddrIDs

NoAddress == [kind |-> "nil", prefix |-> <<>>, netID |-> 0]
Decoded(a) == [panic |-> FALSE, err |-> "nil", addr |-> a]
DecodeError(e) == [panic |-> FALSE, err |-> e, addr |-> NoAddress]
DecodePanic == [panic |-> TRUE, err |-> "nil", addr |-> NoAddress]

newAddressPubKeyHash(pkHash, net) ==
    IF Len(pkHash) # 20 THEN DecodeError("pkHash must be 20 bytes")
    ELSE IF net \notin DOMAIN Prefixes THEN DecodeError("unknown network parameters")
    ELSE Decoded([kind |-> "AddressPubKeyHash", prefix |-> Prefixes[net], netID |-> 0])

NewAddressPubKey(serializedPubKey, net) ==
    IF ~ecc_ParsePubKey(serializedPubKey) THEN DecodeError("invalid public key")
    ELSE Decoded([kind |-> "AddressPubKey", prefix |-> <<>>,
                  netID |-> bchcfg_ParamsAt(net).LegacyPubKeyHashAddrID])

newLegacyAddressPubKeyHash(pkHash, netID) ==
    IF Len(pkHash) # 20 THEN DecodeError("pkHash must be 20 bytes")
    ELSE Decoded([kind |-> "LegacyAddressPubKeyHash", prefix |-> <<>>, netID |-> netID])

newLegacyAddressScriptHashFromHash(scriptHash, netID) ==
    IF Len(scriptHash) # 20 THEN DecodeError("scriptHash must be 20 bytes")
    ELSE Decoded([kind |-> "LegacyAddressScriptHash", prefix |-> <<>>, netID |-> netID])

Mut_IsForNet_AnyLegacy(a, net) ==
    CASE a.kind = "AddressPubKeyHash" -> net \in DOMAIN Prefixes /\ a.prefix = Prefixes[net]
      [] a.kind = "AddressPubKey" -> a.netID = bchcfg_ParamsAt(net).LegacyPubKeyHashAddrID
      [] a.kind = "LegacyAddressPubKeyHash" -> TRUE
      [] a.kind = "LegacyAddressScriptHash" -> a.netID = bchcfg_ParamsAt(net).LegacyScriptHashAddrID

\* The four IsForNet methods.
IsForNet(a, net) ==
    CASE a.kind = "AddressPubKeyHash" -> net \in DOMAIN Prefixes /\ a.prefix = Prefixes[net]
      [] a.kind = "AddressPubKey" -> a.netID = bchcfg_ParamsAt(net).LegacyPubKeyHashAddrID
      [] a.kind = "LegacyAddressPubKeyHash" -> a.netID = bchcfg_ParamsAt(net).LegacyPubKeyHashAddrID
      [] a.kind = "LegacyAddressScriptHash" -> a.netID = bchcfg_ParamsAt(net).LegacyScriptHashAddrID

\* encoding/hex: the value of a digit, -1 for any other byte.
HexValue(c) ==
    IF c >= 48 /\ c <= 57 THEN c - 48
    ELSE IF c >= 97 /\ c <= 102 THEN c - 87
    ELSE IF c >= 65 /\ c <= 70 THEN c - 55
    ELSE 0 - 1

hex_DecodeString(s) ==
    IF Len(s) % 2 # 0 THEN [err |-> "ErrLength", bytes |-> <<>>]
    ELSE IF \E k \in 1..Len(s) : HexValue(s[k]) < 0
    THEN [err |-> "InvalidByteError", bytes |-> <<>>]
    ELSE [err |-> "nil",
          bytes |-> [k \in 1..(Len(s) \div 2) |->
                        16 * HexValue(s[2 * k - 1]) + HexValue(s[2 * k])]]

\* "Add prefix if it does not exist".
withPrefix(addr, pre) ==
    IF Slice(addr, 0, Len(pre) + 1) # pre \o <<58>> THEN pre \o <<58>> \o addr ELSE addr

\* The prefix:base32 attempt of DecodeAddress.
cashAttempt(addr, defaultNet) == checkDecodeCashAddress(withPrefix(addr, Prefixes[defaultNet]))

\* DecodeAddress after the prefix:base32 attempt: a serialized public key
\* in hex, or else a legacy Base58Check address.
decodeLater(addr, defaultNet) ==
    IF Len(addr) = 130 \/ Len(addr) = 66
    THEN LET h == hex_DecodeString(addr)
         IN  IF h.err # "nil" THEN DecodeError(h.err)
             ELSE NewAddressPubKey(h.bytes, defaultNet)
    ELSE LET r == base58_CheckDecode(addr)
             isP2PKH == bchcfg_IsPubKeyHashAddrID(r.version)
             isP2SH  == bchcfg_IsScriptHashAddrID(r.version)
         IN  IF r.err = "ErrChecksum" THEN DecodeError("ErrChecksumMismatch")
             ELSE IF r.err # "nil" THEN DecodeError("decoded address is of unknown format")
             ELSE IF Len(r.result) # 20 THEN DecodeError("decoded address is of unknown size")
             ELSE IF isP2PKH /\ isP2SH THEN DecodeError("ErrAddressCollision")
             ELSE IF isP2PKH THEN newLegacyAddressPubKeyHash(r.result, r.version)
             ELSE IF isP2SH THEN newLegacyAddressScriptHashFromHash(r.result, r.version)
             ELSE DecodeError("ErrUnknownAddressType")

Mut_DecodeAddress_Retry(addr, defaultNet) ==
    IF defaultNet \notin DOMAIN Prefixes THEN DecodeError("unknown network parameters")
    ELSE IF Len(addr) < Len(Prefixes[defaultNet]) + 2 THEN DecodeError("invalid length address")
    ELSE With(cashAttempt(addr, defaultNet), LAMBDA a :
             IF a.panic THEN DecodePanic
             ELSE IF a.err = "nil"
             THEN IF Len(a.result) = 20
                  THEN IF a.t = AddrTypePayToPubKeyHash
                       THEN newAddressPubKeyHash(a.result, defaultNet)
                       ELSE DecodeError("ErrUnknownAddressType")
                  ELSE DecodeError("decoded address is of unknown size")
             ELSE decodeLater(addr, defaultNet))

DecodeAddress(addr, defaultNet) ==
    IF defaultNet \notin DOMAIN Prefixes THEN DecodeError("unknown network parameters")
    ELSE IF Len(addr) < Len(Prefixes[defaultNet]) + 2 THEN DecodeError("invalid length address")
    ELSE With(cashAttempt(addr, defaultNet), LAMBDA a :
             IF a.panic THEN DecodePanic
             ELSE IF a.err = "nil"
             THEN IF Len(a.result) = 20
                  THEN IF a.t = AddrTypePayToPubKeyHash
                       THEN newAddressPubKeyHash(a.result, defaultNet)
                       ELSE DecodeError("ErrUnknownAddressType")
                  ELSE DecodeError("decoded address is of unknown size")
             ELSE IF a.err = "ErrChecksumMismatch" THEN DecodeError("ErrChecksumMismatch")
             ELSE decodeLater(addr, defaultNet))

(***************************************************************************)
(* package addressutil: the validators.  A validator's outcome is whether  *)
(* it panicked, the boolean it returned and the decode error it folded.    *)
(***************************************************************************)
Verdict(b, e) == [panic |-> FALSE, result |-> b, err |-> e]
Panicked == [panic |-> TRUE, result |-> FALSE, err |-> "nil"]

CheckBCHAddress(address, main) ==
    LET netParam == IF main THEN "MainNetParams" ELSE "TestNet3Params"
    IN  With(DecodeAddress(address, netParam), LAMBDA r :
            IF r.panic THEN Panicked
            ELSE IF r.err # "nil" THEN Verdict(FALSE, r.err)
            ELSE Verdict(IsForNet(r.addr, netParam), "nil"))

\* btcutil.DecodeAddress and ltcutil.DecodeAddress followed by IsForNet, for
\* the Base58Check legacy grammar: version byte, 20-byte hash, checksum.
legacyDecodeForNet(addr, params, reg) ==
    LET r == base58_CheckDecode(addr)
        isP2PKH == r.version \in reg.pubKeyHashAddrIDs
        isP2SH  == r.version \in reg.scriptHashAddrIDs
    IN  IF r.err # "nil" THEN Verdict(FALSE, r.err)
        ELSE IF Len(r.result) # 20 THEN Verdict(FALSE, "decoded address is of unknown size")
        ELSE IF isP2PKH /\ isP2SH THEN Verdict(FALSE, "ErrAddressCollision")
        ELSE IF isP2PKH THEN Verdict(r.version = params.PubKeyHashAddrID, "nil")
        ELSE IF isP2SH THEN Verdict(r.version = params.ScriptHashAddrID, "nil")
        ELSE Verdict(FALSE, "ErrUnknownAddressType")

CheckBTCAddress(address, main) ==
    legacyDecodeForNet(address, IF main THEN btccfg_MainNetParams ELSE btccfg_TestNet3Params,
                       registry["btc"])

CheckLTCAddress(address, main) ==
    legacyDecodeForNet(address, IF main THEN ltccfg_MainNetParams ELSE ltccfg_TestNet4Params,
                       registry["ltc"])

strings_ToLower(s) == [k \in 1..Len(s) |-> IF s[k] >= 65 /\ s[k] <= 90 THEN s[k] + 32 ELSE s[k]]

\* ethutil.NewMixedcaseAddressFromString: "0x" and 40 hex characters; the
\* address keeps the text as given and the 20 bytes it denotes.
ethutil_NewMixedcaseAddressFromString(s) ==
    LET has0x == Len(s) >= 2 /\ s[1] = 48 /\ s[2] \in {120, 88}
        body  == IF has0x THEN Slice(s, 2, Len(s)) ELSE s
        h     == hex_DecodeString(body)
    IN  IF Len(body) # 40 \/ h.err # "nil"
        THEN [err |-> "invalid address", original |-> <<>>, bytes |-> <<>>]
        ELSE [err |-> "nil", original |-> s, bytes |-> h.bytes]

\* Address.Hex: "0x" and the case-checksummed hex of the 20 bytes.
ethutil_Hex(bytes) ==
    LET addrBytes == hex_EncodeToString(bytes)
    IN  <<48, 120>> \o ethCase(addrBytes, hex_EncodeToString(keccak256_Sum(addrBytes)))

CheckETHAddress(address) ==
    LET addr == ethutil_NewMixedcaseAddressFromString(address)
    IN  IF addr.err # "nil" THEN Verdict(FALSE, addr.err)
        ELSE Verdict(strings_ToLower(addr.original) = strings_ToLower(ethutil_Hex(addr.bytes)),
                     "nil")

\* eosutil.CheckEOSAccount: at most 12 characters of ".12345a-z".
eosutil_CheckEOSAccount(s) ==
    /\ Len(s) <= 12
    /\ \A k \in 1..Len(s) : s[k] = 46 \/ (s[k] >= 49 /\ s[k] <= 53) \/ (s[k] >= 97 /\ s[k] <= 122)

\* regexp.MatchString(`^([a-z0-9_]{5,11})$`, address)
iostMatch(s) ==
    /\ Len(s) >= 5 /\ Len(s) <= 11
    /\ \A k \in 1..Len(s) : (s[k] >= 97 /\ s[k] <= 122) \/ (s[k] >= 48 /\ s[k] <= 57) \/ s[k] = 95

CheckTRONAddress(base58Addr) ==
    LET rawAddr == base58_Decode(base58Addr)
    IN  IF Len(rawAddr) # 25 \/ Len(rawAddr) = 0 THEN Verdict(FALSE, "nil")
        ELSE IF rawAddr[1] # 65 THEN Verdict(FALSE, "nil")
        ELSE Verdict(Slice(rawAddr, 21, 25)
                        = Slice(sha256_Sum256(sha256_Sum256(Slice(rawAddr, 0, 21))), 0, 4), "nil")

\* "101c"
MainAddrId == <<49, 48, 49, 99>>

CheckVDSAddress(address) ==
    LET addr == base58_Decode(address)
        body == Slice(addr, 0, Len(addr) - 4)
    IN  IF Len(addr) # 26 THEN Verdict(FALSE, "nil")
        ELSE IF hex_EncodeToString(Slice(body, 0, Len(body) - 20)) # MainAddrId
        THEN Verdict(FALSE, "nil")
        ELSE Verdict(hex_EncodeToString(Slice(addr, Len(addr) - 4, Len(addr)))
                        = hex_EncodeToString(addrChecksum(body)), "nil")

CheckAddress(address, chain, main) ==
    CASE chain \in {"BTC", "OMNI"} -> CheckBTCAddress(address, main)
      [] chain = "BCH"             -> CheckBCHAddress(address, main)
      [] chain = "LTC"             -> CheckLTCAddress(address, main)
      [] chain \in {"ETH", "ETC"}  -> CheckETHAddress(address)
      [] chain = "EOS"             -> Verdict(eosutil_CheckEOSAccount(address), "nil")
      [] chain = "IOST"            -> Verdict(iostMatch(address), "nil")
      [] chain = "TRON"            -> CheckTRONAddress(address)
      [] chain = "VDS"             -> CheckVDSAddress(address)
      [] OTHER                     -> Verdict(TRUE, "nil")

(***************************************************************************)
(* SpecCheck: one call of CheckAddress, with the registries as the package *)
(* initialisers leave them.                                                *)
(***************************************************************************)
TextOfKey(chain, main) == Address_String(NewAddress(chain, KeyValid, main).obj).text

HashOfKey == base58_CheckDecode(TextOfKey("BTC", TRUE)).result

\* s with its last byte replaced by another symbol of the same alphabet.
AlterLast(s) ==
    [k \in 1..Len(s) |-> IF k < Len(s) THEN s[k] ELSE IF s[k] = 113 THEN 112 ELSE 113]

CashText(pre, groups) == pre \o <<58>> \o encode(pre, groups)

\* The 34 groups of a version byte and the 20-byte hash.
GroupsOf(versionByte) == convertBits(<<versionByte>> \o HashOfKey, 8, 5, TRUE).out

\* The same groups with a padding bit set in the last one.
BadPadding == [k \in 1..34 |-> IF k < 34 THEN GroupsOf(0)[k] ELSE BitOr(GroupsOf(0)[k], 1)]

\* Among the strings of n < 8 symbols after the prefix, the one whose
\* checksum agrees in the most digits: the low n digits of the remainder
\* are cancelled, the others do not depend on the symbols.
ShortCandidate(pre, n) ==
    LET m == bchutil_polyMod(bchutil_cat(bchutil_expandPrefix(pre), [k \in 1..n |-> 0]))
    IN  pre \o <<58>> \o [k \in 1..n |-> bchBase32Encoder[m[8 - n + k] + 1]]

\* "36daq6e4v7ajjxczp7cdw5ey4ufsp2k6xf": Base58Check of version 5 and a
\* 20-byte hash, written with symbols of the base-32 alphabet only.
LegacyInBase32Symbols ==
    <<51, 54, 100, 97, 113, 54, 101, 52, 118, 55, 97, 106, 106, 120, 99, 122, 112,
      55, 99, 100, 119, 53, 101, 121, 52, 117, 102, 115, 112, 50, 107, 54, 120, 102>>

\* The keys addresses are derived from, and the chains the derived text is
\* validated for.
DerivedKeys == {KeyValid, KeyBase32}
DerivedChains == {"BTC", "LTC", "BCH", "ETH", "TRON", "VDS"}

\* NewAddress(chain, key, main) returned an address.
Derives(chain, key, main) == NewAddress(chain, key, main).err = "nil"

\* NewAddress(chain, key, main).String()
DerivedText(chain, key, main) == Address_String(NewAddress(chain, key, main).obj).text

DerivedTexts ==
    {TextOfKey(chain, main) : chain \in DerivedChains, main \in BOOLEAN}
        \cup {DerivedText(chain, KeyBase32, main) :
                 chain \in {c \in DerivedChains : Derives(c, KeyBase32, TRUE)}, main \in BOOLEAN}

\* s with the letters from index from (counted from 1) on in upper case.
Upper(s, from) ==
    [k \in 1..Len(s) |-> IF k >= from /\ s[k] >= 97 /\ s[k] <= 122 THEN s[k] - 32 ELSE s[k]]

\* s with the case of every letter from index from (counted from 1) on
\* changed.
SwapCase(s, from) ==
    [k \in 1..Len(s) |->
        IF k >= from /\ s[k] >= 97 /\ s[k] <= 122 THEN s[k] - 32
        ELSE IF k >= from /\ s[k] >= 65 /\ s[k] <= 90 THEN s[k] + 32
        ELSE s[k]]

\* A prefix:base32 text, and it with its last symbol altered, in upper
\* case, with the symbols alone in upper case, and without its prefix.
Variants(pre, t) ==
    {t, AlterLast(t), Upper(t, 1), Upper(t, Len(pre) + 2), Slice(t, Len(pre) + 1, Len(t))}

CashInputsOf ==
    {<<pre, GroupsOf(v)>> : pre \in {STR_bitcoincash, STR_bchtest}, v \in {0, 8, 16}}
        \cup {<<STR_bitcoincash, BadPadding>>,
              <<STR_bitcoincash, convertBits(<<0>> \o Slice(HashOfKey, 0, 10), 8, 5, TRUE).out>>,
              <<STR_bchreg, GroupsOf(0)>>}

\* Legacy pay-to-pubkey-hash addresses of both networks: of the key's hash
\* and of the two extreme hashes.
ConvertedHashes == {HashOfKey, [k \in 1..20 |-> 0], [k \in 1..20 |-> 255]}
LegacyP2PKH ==
    {base58_CheckEncode(h, v) : h \in ConvertedHashes, v \in {BCH_MAIN_NET, BCH_TEST_NET}}

CashTexts ==
    {CashAddress(a).text : a \in LegacyP2PKH}
        \cup UNION {Variants(p[1], CashText(p[1], p[2])) : p \in CashInputsOf}

ShortTexts ==
    {ShortCandidate(pre, n) : pre \in {STR_bitcoincash, STR_bchtest}, n \in 0..7}
        \cup {<<113, 113>>, <<58, 113, 113>>, <<97, 58, 98, 58, 99>>, <<>>,
              <<49, 97, 58, 113, 113, 113, 113, 113, 113, 113, 113, 113, 113, 113, 113>>}

LegacyTexts ==
    {base58_CheckEncode(HashOfKey, v) : v \in {0, 5, 48, 50, 58, 111, 196, 65}}
        \cup {base58_CheckEncode(Slice(HashOfKey, 0, 19), 0), LegacyInBase32Symbols,
              base58_Encode(<<0>> \o HashOfKey \o <<1, 2, 3, 4>>)}

KeyTexts ==
    {hex_EncodeToString(k) : k \in {KeyValid, KeyCompressed, KeyOffCurve}}
        \cup {[k \in 1..66 |-> 122], [k \in 1..130 |-> 48]}

\* "eosaccount12", "hello_iost", "abc", "thirteenchars", "bad!char", a byte
\* above 127, "0x" and 40 times "G".
OtherTexts ==
    {<<101, 111, 115, 97, 99, 99, 111, 117, 110, 116, 49, 50>>,
     <<104, 101, 108, 108, 111, 95, 105, 111, 115, 116>>,
     <<97, 98, 99>>,
     <<116, 104, 105, 114, 116, 101, 101, 110, 99, 104, 97, 114, 115>>,
     <<98, 97, 100, 33, 99, 104, 97, 114>>,
     STR_bitcoincash \o <<58, 113, 200, 113, 113, 113, 113, 113, 113, 113>>,
     <<48, 120>> \o [k \in 1..40 |-> 71],
     strings_ToLower(TextOfKey("ETH", TRUE)),
     SwapCase(TextOfKey("ETH", TRUE), 3),
     Upper(TextOfKey("ETH", TRUE), 3),
     Slice(TextOfKey("ETH", TRUE), 2, 42)}

TextSamples ==
    UNION {{t, AlterLast(t)} : t \in DerivedTexts}
        \cup CashTexts \cup ShortTexts \cup LegacyTexts \cup KeyTexts \cup OtherTexts

CheckChains == {"BTC", "OMNI", "BCH", "LTC", "ETH", "ETC", "EOS", "IOST", "TRON", "VDS", "DOGE"}

NoCheck == [called |-> FALSE, text |-> <<>>, chain |-> "", main |-> FALSE,
            panic |-> FALSE, result |-> FALSE, err |-> "nil"]

CheckInit ==
    /\ checked = NoCheck
    /\ registry = [pkg \in Packages |-> PackageInit(pkg).reg]
    /\ accepted = [pkg \in Packages |->
                      [n \in NetSamples(pkg) |->
                          IF n \in PackageInit(pkg).reg.registeredNets THEN 1 ELSE 0]]
    /\ regLast = NoRegister
    /\ BitsIdle /\ CashIdle /\ ObjIdle /\ RaceIdle /\ CodeIdle /\ GroupIdle /\ PackIdle

Mut_CallCheckAddress_Registers(text, chain, main) ==
    /\ ~checked.called
    /\ \E r \in {CheckAddress(text, chain, main)} :
           checked' = [called |-> TRUE, text |-> text, chain |-> chain, main |-> main,
                       panic |-> r.panic, result |-> r.result, err |-> r.err]
    /\ registry' = [registry EXCEPT !["bch"].pubKeyHashAddrIDs = @ \cup {255}]
    /\ UNCHANGED <<accepted, regLast>>
    /\ UNCHANGED <<bitsVars, cashVars, objVars, raceVars, codeVars, groupVars, packVars>>

CallCheckAddress(text, chain, main) ==
    /\ ~checked.called
    /\ \E r \in {CheckAddress(text, chain, main)} :
           checked' = [called |-> TRUE, text |-> text, chain |-> chain, main |-> main,
                       panic |-> r.panic, result |-> r.result, err |-> r.err]
    /\ UNCHANGED <<bitsVars, cashVars, objVars, regVars, raceVars, codeVars, groupVars, packVars>>

CheckNext ==
    \E text \in TextSamples : \E chain \in CheckChains : \E main \in BOOLEAN :
        CallCheckAddress(text, chain, main)

SpecCheck == CheckInit /\ [][CheckNext]_vars

\* A prefix:base32 text with fewer than 8 symbols after its separator.
FewerThanEight(t) == \E k \in 1..Len(t) : t[k] = 58 /\ Len(t) - k < 8

\* C6: CheckAddress returns a boolean and never panics; every decode
\* failure of a lower level, and every prefix:base32 text with fewer than 8
\* symbols after the separator, gives false.
C6_NeverPanics ==
    checked.called =>
        /\ ~checked.panic
        /\ checked.result \in BOOLEAN
        /\ checked.err # "nil" => checked.result = FALSE
        /\ (checked.chain = "BCH" /\ FewerThanEight(checked.text)) => checked.result = FALSE

C6_Witness ==
    /\ checked.called /\ checked.chain = "BCH" /\ checked.main
    /\ checked.text = ShortCandidate(STR_bitcoincash, 3)
    /\ ~checked.panic /\ checked.result = FALSE /\ checked.err = "ErrChecksumMismatch"

\* A legacy Base58Check address of the network selected by main.
ValidLegacy(t, main) ==
    LET r == base58_CheckDecode(t)
        p == IF main THEN bchcfg_MainNetParams ELSE bchcfg_TestNet3Params
    IN  /\ r.err = "nil" /\ Len(r.result) = 20
        /\ r.version \in {p.LegacyPubKeyHashAddrID, p.LegacyScriptHashAddrID}

\* What the prefix:base32 attempt on t reported ("none" when t is too short
\* for the attempt to be made).
AttemptError(t, main) ==
    LET net == IF main THEN "MainNetParams" ELSE "TestNet3Params"
    IN  IF Len(t) < Len(Prefixes[net]) + 2 THEN "none" ELSE cashAttempt(t, net).err

CashFormOf(a) ==
    a.prefix \o <<58>>
        \o checkEncodeCashAddress(hash160_Hash160(a.pubKey), a.prefix, AddrTypePayToPubKeyHash)

\* C11: for every valid 65-byte key (tag 0x04), NewBCHAddress(key,
\* main).String() is the prefix:base32 form: the network prefix, a colon,
\* and the base-32 rendering of the groups of versionByte ++ hash and of the
\* checksum.
C11_StringIsCashForm ==
    (last.op = "String" /\ last.type = "BCHAddress" /\ ~last.panic)
        => last.text = CashFormOf(heap[last.obj])

\* C15: ETHAddress.String() returns "0x" followed by 40 hex characters in
\* which the character at position i is upper case if and only if it is a
\* letter (a-f) and the i-th nibble of the Keccak hash of the lower-case
\* 40-character hex string is >= 8; lower-casing the result and applying
\* the casing rule again gives the same string.
C15_EthCaseRule ==
    (last.op = "String" /\ last.type = "ETHAddress" /\ ~last.panic) =>
        /\ Len(last.text) = 42 /\ last.text[1] = 48 /\ last.text[2] = 120
        /\ LET body  == Slice(last.text, 2, 42)
               lower == strings_ToLower(body)
               h     == keccak256_Sum(lower)
               Nibble(i) == IF i % 2 = 1 THEN h[(i + 1) \div 2] \div 16 ELSE h[i \div 2] % 16
           IN  /\ \A i \in 1..40 :
                     /\ lower[i] \in (48..57) \cup (97..102)
                     /\ body[i] \in 65..70 <=> (lower[i] \in 97..102 /\ Nibble(i) >= 8)
                     /\ body[i] \notin 65..70 => body[i] = lower[i]
               /\ <<48, 120>> \o ethCase(lower, hex_EncodeToString(h)) = last.text

C15_Witness ==
    /\ last.op = "String" /\ last.type = "ETHAddress" /\ ~last.panic
    /\ heap[last.obj].pubKey = KeyValid
    /\ \E i \in 3..42 : last.text[i] \in 65..70
    /\ \E i \in 3..42 : last.text[i] \in 97..102
    /\ \E i \in 3..42 : last.text[i] \in 48..57

(***************************************************************************)
(* Claims about the validators.                                            *)
(***************************************************************************)
\* C12: derivation followed by validation succeeds: for every chain C in
\* {BTC, LTC, BCH, ETH, TRON, VDS}, every valid 65-byte key k (tag 0x04)
\* and every network flag m, CheckAddress(NewAddress(C, k, m).String(), C,
\* m) is true.
C12_DerivedIsValid ==
    (checked.called /\ checked.chain \in DerivedChains
        /\ \E k \in DerivedKeys :
               /\ Len(k) = 65 /\ k[1] = 4
               /\ Derives(checked.chain, k, checked.main)
               /\ checked.text = DerivedText(checked.chain, k, checked.main))
        => (~checked.panic /\ checked.result = TRUE)

\* The base-32 part of a text: what follows its separator, the whole text
\* when it has none.
Base32Positions(t) ==
    {k \in 1..Len(t) : \A j \in k..Len(t) : t[j] # 58}

Base32Symbols == {bchBase32Encoder[k] : k \in 1..32}

\* t with the character at k replaced by c.
Substituted(t, k, c) == [t EXCEPT ![k] = c]

\* C13: for every prefix:base32 BCH address that CheckBCHAddress accepts,
\* replacing exactly one character of its base-32 part (payload or
\* checksum) by a different character of the base-32 alphabet gives a text
\* that CheckBCHAddress rejects.
C13_SubstitutionRejected ==
    (checked.called /\ checked.chain = "BCH" /\ checked.result
        /\ AttemptError(checked.text, checked.main) = "nil")
        => \A k \in Base32Positions(checked.text) :
               \A c \in Base32Symbols \ {checked.text[k]} :
                   ~CheckBCHAddress(Substituted(checked.text, k, c), checked.main).result

C13_Witness ==
    /\ checked.called /\ checked.chain = "BCH" /\ checked.main /\ checked.result
    /\ checked.text = CashAddress(TextOfKey("BCH", TRUE)).text
    /\ Cardinality(Base32Positions(checked.text)) = 42
    /\ ~CheckBCHAddress(AlterLast(checked.text), TRUE).result

\* "0x" and 40 hex characters with both upper-case and lower-case letters.
MixedCaseHex(t) ==
    /\ Len(t) = 42 /\ t[1] = 48 /\ t[2] = 120
    /\ hex_DecodeString(Slice(t, 2, 42)).err = "nil"
    /\ \E i \in 3..42 : t[i] \in 65..70
    /\ \E i \in 3..42 : t[i] \in 97..102

\* The text the case-checksum rule prescribes for the 20 bytes of t.
PrescribedCase(t) == ethutil_Hex(hex_DecodeString(Slice(t, 2, 42)).bytes)

\* C16: CheckETHAddress recomputes the case checksum: a mixed-case "0x" +
\* 40-hex-character address whose letter casing differs from the casing the
\* case-checksum rule prescribes for its 20 bytes is rejected.
C16_WrongCaseRejected ==
    (checked.called /\ checked.chain \in {"ETH", "ETC"} /\ MixedCaseHex(checked.text)
        /\ checked.text # PrescribedCase(checked.text))
        => checked.result = FALSE

(***************************************************************************)
(* SpecCode: a version prefix and a 20-byte hash are written as a          *)
(* Base58Check text, as encodeAddr and tronAddrFromPub do, and the text is *)
(* decoded and taken apart again, as CheckVDSAddress and CheckTRONAddress  *)
(* do.                                                                     *)
(***************************************************************************)
\* Every one-byte version, the two bytes of VDS, two zero bytes.
VersionPrefixes == {<<v>> : v \in 0..255} \cup {P2PKHAddrId, <<0, 0>>}

\* 20-byte hashes: a derived one, the extremes, leading and trailing zeros.
HashSamples ==
    {HashOfKey,
     [k \in 1..20 |-> 0],
     [k \in 1..20 |-> 255],
     [k \in 1..20 |-> IF k <= 3 THEN 0 ELSE (k * 37) % 256],
     [k \in 1..20 |-> IF k >= 18 THEN 0 ELSE (k * 91 + 5) % 256]}

NoText == [called |-> FALSE, err |-> "nil", text |-> <<>>]
NoDecoding == [called |-> FALSE, raw |-> <<>>, prefix |-> <<>>, hash |-> <<>>,
               carried |-> <<>>, computed |-> <<>>]

CodeInit ==
    /\ \E pre \in VersionPrefixes : \E h \in HashSamples :
           coded = [prefix |-> pre, hash |-> h, encoded |-> NoText, decoded |-> NoDecoding]
    /\ BitsIdle /\ CashIdle /\ ObjIdle /\ RegIdle /\ RaceIdle /\ CheckIdle /\ GroupIdle /\ PackIdle

\* encodeAddr(hash, prefix); tronAddrFromPub does the same with 0x41 and the
\* last 20 bytes of the key's hash.
EncodeText ==
    /\ ~coded.encoded.called
    /\ \E r \in {encodeAddr(coded.hash, coded.prefix)} :
           coded' = [coded EXCEPT !.encoded = [called |-> TRUE, err |-> r.err, text |-> r.text]]
    /\ UNCHANGED <<bitsVars, cashVars, objVars, regVars, raceVars, checkVars, groupVars, packVars>>

\* base58.Decode, then the parts as CheckVDSAddress takes them: the last
\* four bytes, the 20 bytes before them, what is before those; and the
\* checksum of all but the last four.
DecodeText ==
    /\ coded.encoded.called /\ coded.encoded.err = "nil"
    /\ ~coded.decoded.called
    /\ \E addr \in {base58_Decode(coded.encoded.text)} :
           /\ Len(addr) >= 24
           /\ coded' = [coded EXCEPT !.decoded =
                  LET body == Slice(addr, 0, Len(addr) - 4)
                  IN  [called |-> TRUE, raw |-> addr,
                       prefix |-> Slice(body, 0, Len(body) - 20),
                       hash |-> Slice(body, Len(body) - 20, Len(body)),
                       carried |-> Slice(addr, Len(addr) - 4, Len(addr)),
                       computed |-> addrChecksum(body)]]
    /\ UNCHANGED <<bitsVars, cashVars, objVars, regVars, raceVars, checkVars, groupVars, packVars>>

CodeNext == EncodeText \/ DecodeText

SpecCode == CodeInit /\ [][CodeNext]_vars

\* C14: for every version prefix and every 20-byte payload, the Base58 text
\* of prefix ++ payload ++ first four bytes of the double SHA-256 of prefix
\* ++ payload decodes to the same prefix and payload, with the carried
\* checksum equal to the recomputed one; CheckTRONAddress accepts the text
\* for the prefix 0x41, CheckVDSAddress for 0x10 0x1C, and
\* base58.CheckDecode gives the version and payload back for one byte.
C14_Base58CheckRoundTrip ==
    /\ coded.encoded.called => coded.encoded.err = "nil"
    /\ coded.encoded.called =>
          Len(base58_Decode(coded.encoded.text)) = Len(coded.prefix) + 24
    /\ coded.decoded.called =>
          /\ coded.decoded.prefix = coded.prefix
          /\ coded.decoded.hash = coded.hash
          /\ coded.decoded.carried = coded.decoded.computed
          /\ coded.prefix = <<65>> => CheckTRONAddress(coded.encoded.text).result
          /\ coded.prefix = P2PKHAddrId => CheckVDSAddress(coded.encoded.text).result
          /\ Len(coded.prefix) = 1 =>
                base58_CheckDecode(coded.encoded.text)
                    = [err |-> "nil", result |-> coded.hash, version |-> coded.prefix[1]]

C14_Witness ==
    /\ coded.decoded.called
    /\ coded.prefix = <<0>>
    /\ coded.hash = [k \in 1..20 |-> 0]
    /\ Len(coded.decoded.raw) = 25
    /\ LeadingCount(coded.encoded.text, 49) = 21

(***************************************************************************)
(* The checksum recurrence on 40-bit numbers, each held as two 20-bit      *)
(* halves <<hi, lo>>: the number is hi * 2^20 + lo.                        *)
(***************************************************************************)
Half == 2 ^ 20
Low15 == 2 ^ 15

G1 == <<626475, 822881>>        \* 0x98f2b c8e61
G2 == <<498550, 891362>>        \* 0x79b76 d99e2
G3 == <<996325, 1029060>>       \* 0xf33e5 fb3c4
G4 == <<713450, 778920>>        \* 0xae2ea be2a8
G5 == <<124148, 255088>>        \* 0x1e4f4 3e470

N40Xor(a, b) == <<BitXor(a[1], b[1]), BitXor(a[2], b[2])>>

\* The XOR of the generators g_k over the set bits k-1 of c0.
GeneratorsOf(c0) ==
    LET x1 == IF (c0 \div 1) % 2 = 1 THEN G1 ELSE <<0, 0>>
        x2 == IF (c0 \div 2) % 2 = 1 THEN N40Xor(x1, G2) ELSE x1
        x3 == IF (c0 \div 4) % 2 = 1 THEN N40Xor(x2, G3) ELSE x2
        x4 == IF (c0 \div 8) % 2 = 1 THEN N40Xor(x3, G4) ELSE x3
        x5 == IF (c0 \div 16) % 2 = 1 THEN N40Xor(x4, G5) ELSE x4
    IN  x5

GeneratorTable == [c0 \in 0..31 |-> GeneratorsOf(c0)]

\* c with g_k XORed in for each set bit k-1 of c0.
N40Generators(c, c0) == N40Xor(c, GeneratorTable[c0])

\* c0 = c >> 35; c = ((c & 0x07FFFFFFFF) << 5) XOR d; then the generators.
MaskThenShiftStep(c, d) ==
    LET c0 == c[1] \div Low15
        hi == (c[1] % Low15) * 32 + (c[2] \div Low15)
        lo == (c[2] % Low15) * 32
    IN  N40Generators(<<hi, BitXor(lo, d)>>, c0)

\* c0 = c >> 35; c = ((c << 5) | d) & 0x07FFFFFFFF; then the generators.
ShiftThenMaskStep(c, d) ==
    LET c0 == c[1] \div Low15
        hi == ((c[1] * 32) + (c[2] \div Low15)) % Low15
        lo == (c[2] % Low15) * 32
    IN  N40Generators(<<hi, BitOr(lo, d)>>, c0)

RECURSIVE MaskThenShiftLoop(_, _, _)
MaskThenShiftLoop(v, n, c) ==
    IF n > Len(v) THEN c
    ELSE LET next == MaskThenShiftStep(c, v[n])
         IN  IF Evaluated(next) THEN MaskThenShiftLoop(v, n + 1, next) ELSE next

RECURSIVE ShiftThenMaskLoop(_, _, _)
ShiftThenMaskLoop(v, n, c) ==
    IF n > Len(v) THEN c
    ELSE LET next == ShiftThenMaskStep(c, v[n])
         IN  IF Evaluated(next) THEN ShiftThenMaskLoop(v, n + 1, next) ELSE next

\* The recurrences from the state 1, with the final XOR 1.
MaskThenShift(v) == N40Xor(MaskThenShiftLoop(v, 1, <<0, 1>>), <<0, 1>>)
ShiftThenMask(v) == N40Xor(ShiftThenMaskLoop(v, 1, <<0, 1>>), <<0, 1>>)

\* The eight 5-bit groups of a 40-bit number, most significant first.
N40Groups(c) ==
    <<(c[1] \div 32768) % 32, (c[1] \div 1024) % 32, (c[1] \div 32) % 32, c[1] % 32,
      (c[2] \div 32768) % 32, (c[2] \div 1024) % 32, (c[2] \div 32) % 32, c[2] % 32>>

\* What createChecksum and verifyChecksum hand to polyMod.
ChecksumInput == cat(cat(expandPrefix(prefix), payload), <<0, 0, 0, 0, 0, 0, 0, 0>>)
VerifyInput   == cat(expandPrefix(prefix), cat(payload, checksum.out))

\* C18 (as amended): polyMod computes the recurrence that starts at c = 1
\* and, for each input value d (< 32), takes c0 = c >> 35, sets
\* c = ((c & 0x07FFFFFFFF) << 5) XOR d (the mask is applied before the
\* shift, so the state keeps 40 bits), XORs generator g_k into c for each
\* set bit k-1 of c0, and returns c XOR 1: the checksum created is the
\* eight 5-bit groups of that value, and verification succeeds exactly
\* when that value is 0, in both copies of polyMod.  The created checksum
\* is compared in the state createChecksum leaves, the verdict in the
\* state verifyChecksum leaves.
C18_PolyModRecurrence ==
    /\ (checksum.called /\ ~verified.called) =>
          With(N40Groups(MaskThenShift(ChecksumInput)),
               LAMBDA r : /\ checksum.out = r
                          /\ bchutil_polyMod(ChecksumInput) = r)
    /\ verified.called =>
          With(MaskThenShift(VerifyInput),
               LAMBDA r : /\ verified.ok <=> (r = <<0, 0>>)
                          /\ bchutil_polyMod(VerifyInput) = N40Groups(r))

C18_Witness ==
    /\ checksum.called /\ verified.called
    /\ prefix = STR_bchtest
    /\ Len(payload) = MaxPayloadLen /\ payload[1] = 31
    /\ MaskThenShift(ChecksumInput) # ShiftThenMask(ChecksumInput)

\* C18 as stated: the recurrence with c = ((c << 5) | d) & 0x07FFFFFFFF,
\* the mask applied after the shift.
C18_ShiftThenMask ==
    checksum.called => checksum.out = N40Groups(ShiftThenMask(ChecksumInput))

SupportedChains == {"BTC", "OMNI", "BCH", "LTC", "ETH", "ETC", "EOS", "IOST", "TRON", "VDS"}

C20_UnknownChainRejected ==
    (checked.called /\ checked.chain \notin SupportedChains) => ~checked.result

(***************************************************************************)
(* Claims about BCH validation.                                            *)
(***************************************************************************)
\* The parameters main selects, and the prefix of the other network.
SelectedParams(main) == IF main THEN bchcfg_MainNetParams ELSE bchcfg_TestNet3Params
OtherPrefix(main) == IF main THEN STR_bchtest ELSE STR_bitcoincash

\* t starts with pre and the separator, in either case.
CarriesPrefix(t, pre) ==
    /\ Len(t) > Len(pre)
    /\ strings_ToLower(Slice(t, 0, Len(pre) + 1)) = pre \o <<58>>

\* C23: network separation in BCH validation: a checksum-valid legacy
\* address is accepted by CheckBCHAddress(text, main) only if its version
\* byte is the selected network's LegacyPubKeyHashAddrID or
\* LegacyScriptHashAddrID; a prefix:base32 address carrying the other
\* network's prefix is rejected; NewBCHAddress(k, m).String() is rejected
\* by CheckBCHAddress(., not m).
C23_NetworkSeparation ==
    (checked.called /\ checked.chain = "BCH") =>
        /\ With(base58_CheckDecode(checked.text), LAMBDA r :
               (r.err = "nil" /\ checked.result)
                   => r.version \in {SelectedParams(checked.main).LegacyPubKeyHashAddrID,
                                     SelectedParams(checked.main).LegacyScriptHashAddrID})
        /\ CarriesPrefix(checked.text, OtherPrefix(checked.main)) => ~checked.result
        /\ (\E k \in DerivedKeys : checked.text = DerivedText("BCH", k, ~checked.main))
               => ~checked.result

\* The main-network address of the key, decoded as a legacy address and
\* found not to be of the test network.
C23_Witness ==
    /\ checked.called /\ checked.chain = "BCH" /\ ~checked.main
    /\ checked.text = TextOfKey("BCH", TRUE)
    /\ checked.err = "nil" /\ ~checked.result

\* C25: legacy-to-CashAddr conversion round trip: for every checksum-valid
\* legacy P2PKH address a with a 20-byte payload and version byte 0x00
\* (resp. 0x6f), CashAddress(a) returns a string that CheckBCHAddress
\* accepts with main = true (resp. false), and decoding that string yields
\* the same 20-byte payload with type P2PKH.
C25_ConversionRoundTrip ==
    \A a \in LegacyP2PKH :
        With(base58_CheckDecode(a), LAMBDA r :
            (/\ checked.called /\ checked.chain = "BCH"
             /\ r.err = "nil" /\ Len(r.result) = 20
             /\ r.version \in {BCH_MAIN_NET, BCH_TEST_NET}
             /\ checked.main = (r.version = BCH_MAIN_NET)
             /\ checked.text = CashAddress(a).text)
            => /\ CashAddress(a).err = "nil"
               /\ checked.result
               /\ With(checkDecodeCashAddress(checked.text), LAMBDA d :
                      /\ d.err = "nil"
                      /\ d.result = r.result
                      /\ d.t = AddrTypePayToPubKeyHash))

C25_Witness ==
    /\ checked.called /\ checked.chain = "BCH" /\ ~checked.main
    /\ checked.text = CashAddress(base58_CheckEncode([k \in 1..20 |-> 255], BCH_TEST_NET)).text
    /\ checked.result
    /\ Slice(checked.text, 0, 8) = STR_bchtest \o <<58>>

\* The bytes the prefix:base32 attempt of DecodeAddress decodes from t:
\* the version byte and the hash; <<>> when the attempt fails.
AttemptBytes(t, main) ==
    LET net == IF main THEN "MainNetParams" ELSE "TestNet3Params"
    IN  IF Len(t) < Len(Prefixes[net]) + 2 THEN <<>>
        ELSE With(DecodeCashAddress(withPrefix(t, Prefixes[net])), LAMBDA d :
                 IF d.panic \/ d.err # "nil" THEN <<>>
                 ELSE bchutil_convertBits(d.data, 5, 8, FALSE).out)

\* C26: in the prefix:base32 path DecodeAddress returns a
\* pay-to-pubkey-hash address only when the decoded version byte is 0x00;
\* a checksum-valid address with any other version byte yields an error,
\* so CheckBCHAddress rejects it.
C26_OnlyVersionZero ==
    (checked.called /\ checked.chain = "BCH") =>
        With(AttemptBytes(checked.text, checked.main), LAMBDA b :
            (Len(b) = 21 /\ b[1] # 0) => (~checked.result /\ checked.err # "nil"))

\* C28: CheckBCHAddress(text, main) returns true only if text is a
\* checksum-valid prefix:base32 address (with or without its prefix) or a
\* checksum-valid legacy Base58Check address of the selected network; no
\* other kind of string, such as the hex encoding of a public key, is
\* accepted.
C28_OnlyAddressesAccepted ==
    (checked.called /\ checked.chain = "BCH" /\ checked.result) =>
        \/ AttemptError(checked.text, checked.main) = "nil"
        \/ ValidLegacy(checked.text, checked.main)

(***************************************************************************)
(* SpecGroups: the functions the two packages each have a copy of          *)
(* (convertBits, expandPrefix, cat, polyMod), applied to the same values   *)
(* for every pair of widths from 1 to 8.                                   *)
(***************************************************************************)
Widths == 1..8

\* Values of a width: the extremes, the lowest bit alone, the highest alone.
ValuesOf(w) == {0, 1, Pow2(w - 1), Pow2(w) - 1}

\* Longer sequences, of the lengths at which 5-bit values fill whole bytes
\* or leave fewer than five bits over.
LongSamples(w) ==
    {[k \in 1..n |-> (k * m + a) % Pow2(w)] : n \in {4, 5, 7, 8}, m \in {3, 7, 16}, a \in {0, 3}}

GroupInputs(w) == SeqsUpTo(ValuesOf(w), MaxGroupLen) \cup LongSamples(w)

NoPair == [called |-> FALSE, enc |-> None, dec |-> None]
NoSums == [called |-> FALSE, expandEnc |-> <<>>, expandDec |-> <<>>, catEnc |-> <<>>,
           catDec |-> <<>>, modEnc |-> <<>>, modDec |-> <<>>]

NoEncoding == [called |-> FALSE, prefix |-> <<>>, checksum |-> <<>>, panic |-> FALSE,
               out |-> <<>>]

GroupInit ==
    /\ \E f \in Widths : \E t \in Widths : \E d \in GroupInputs(f) :
           grouped = [fromBits |-> f, tobits |-> t, data |-> d, padded |-> NoPair,
                      strictly |-> NoPair, back |-> None, sums |-> NoSums,
                      text |-> NoEncoding]
    /\ BitsIdle /\ CashIdle /\ ObjIdle /\ RegIdle /\ RaceIdle /\ CheckIdle /\ CodeIdle
    /\ PackIdle

\* convertBits(data, fromBits, tobits, true), in both packages.
Regroup ==
    /\ ~grouped.padded.called
    /\ grouped' = [grouped EXCEPT !.padded =
           [called |-> TRUE,
            enc |-> Returned(convertBits(grouped.data, grouped.fromBits, grouped.tobits, TRUE)),
            dec |-> Returned(bchutil_convertBits(grouped.data, grouped.fromBits,
                                                 grouped.tobits, TRUE))]]
    /\ UNCHANGED <<bitsVars, cashVars, objVars, regVars, raceVars, checkVars, codeVars, packVars>>

\* convertBits(data, fromBits, tobits, false), in both packages.
RegroupStrictly ==
    /\ grouped.padded.called /\ ~grouped.strictly.called
    /\ grouped' = [grouped EXCEPT !.strictly =
           [called |-> TRUE,
            enc |-> Returned(convertBits(grouped.data, grouped.fromBits, grouped.tobits, FALSE)),
            dec |-> Returned(bchutil_convertBits(grouped.data, grouped.fromBits,
                                                 grouped.tobits, FALSE))]]
    /\ UNCHANGED <<bitsVars, cashVars, objVars, regVars, raceVars, checkVars, codeVars, packVars>>

\* What checkDecodeCashAddress got from 5-bit values, packed again as
\* packAddressData packs: convertBits(b, 8, 5, true).
Repack ==
    /\ grouped.fromBits = 5 /\ grouped.tobits = 8
    /\ grouped.strictly.called /\ grouped.strictly.dec.ok
    /\ ~grouped.back.called
    /\ grouped' = [grouped EXCEPT !.back =
           Returned(convertBits(grouped.strictly.dec.out, 8, 5, TRUE))]
    /\ UNCHANGED <<bitsVars, cashVars, objVars, regVars, raceVars, checkVars, codeVars, packVars>>

\* expandPrefix, cat and polyMod of both packages on the same bytes.
Sums ==
    /\ grouped.strictly.called /\ ~grouped.sums.called
    /\ grouped' = [grouped EXCEPT !.sums =
           [called |-> TRUE,
            expandEnc |-> expandPrefix(grouped.data),
            expandDec |-> bchutil_expandPrefix(grouped.data),
            catEnc |-> cat(grouped.data, grouped.padded.enc.out),
            catDec |-> bchutil_cat(grouped.data, grouped.padded.enc.out),
            modEnc |-> polyMod(cat(grouped.data, grouped.padded.enc.out)),
            modDec |-> bchutil_polyMod(bchutil_cat(grouped.data, grouped.padded.enc.out))]]
    /\ UNCHANGED <<bitsVars, cashVars, objVars, regVars, raceVars, checkVars, codeVars, packVars>>

\* encode(prefix, payload) on what packAddressData's convertBits(data, 8,
\* 5, true) returned, and the checksum it appends.  bchBase32Encoder[c]
\* with c above 31 is an index out of range: a run-time panic.
EncodeGroups(pre) ==
    /\ grouped.fromBits = 8 /\ grouped.tobits = 5
    /\ grouped.padded.called /\ grouped.padded.enc.ok
    /\ ~grouped.text.called
    /\ \E sum \in {createChecksum(pre, grouped.padded.enc.out)} :
       \E inRange \in {\A k \in 1..Len(sum) : sum[k] < 32} :
           grouped' = [grouped EXCEPT !.text =
               [called |-> TRUE, prefix |-> pre, checksum |-> sum, panic |-> ~inRange,
                out |-> IF inRange THEN encode(pre, grouped.padded.enc.out) ELSE <<>>]]
    /\ UNCHANGED <<bitsVars, cashVars, objVars, regVars, raceVars, checkVars, codeVars, packVars>>

GroupNext ==
    \/ Regroup
    \/ RegroupStrictly
    \/ Repack
    \/ Sums
    \/ \E pre \in {STR_bitcoincash, STR_bchtest} : EncodeGroups(pre)

SpecGroups == GroupInit /\ [][GroupNext]_vars

\* The bit at position n of the stream of d's fromBits-wide values, 0 past
\* its end.
FilledBitAt(d, fromBits, n) ==
    IF n < Len(d) * fromBits THEN BitAt(d, fromBits, n) ELSE 0

RECURSIVE FilledValue(_, _, _, _)
FilledValue(d, fromBits, n, w) ==
    IF w = 0 THEN 0
    ELSE 2 * FilledValue(d, fromBits, n, w - 1) + FilledBitAt(d, fromBits, n + w - 1)

\* The reference regrouping: the bit string cut into tobits-wide groups
\* from the left, the last one zero-filled on the right.
Reference(d, fromBits, tobits) ==
    [j \in 1..((Len(d) * fromBits + tobits - 1) \div tobits) |->
        FilledValue(d, fromBits, (j - 1) * tobits, tobits)]

\* C21: for all fromBits and toBits in 1..8 and every input whose values
\* are each < 2^fromBits, convertBits(data, fromBits, toBits, true)
\* succeeds and equals the reference regrouping (the bit string cut into
\* toBits-wide groups from the left, the last partial group zero-filled on
\* the right), in both copies: the accumulator mask drops no bit that is
\* still to be emitted.
C21_PaddedIsReference ==
    grouped.padded.called =>
        With(Reference(grouped.data, grouped.fromBits, grouped.tobits),
             LAMBDA ref : /\ grouped.padded.enc.ok /\ grouped.padded.enc.out = ref
                          /\ grouped.padded.dec.ok /\ grouped.padded.dec.out = ref)

\* Seven bits are left in the accumulator when a value with its top bit
\* set arrives.
C21_Witness ==
    /\ grouped.padded.called
    /\ grouped.fromBits = 7 /\ grouped.tobits = 8
    /\ grouped.data = <<127, 64, 127>>

\* C24: non-padded decoding loses nothing: whenever convertBits(v, 5, 8,
\* false) succeeds on a sequence v of 5-bit values with result b,
\* convertBits(b, 8, 5, true) returns exactly v.
C24_DecodingLosesNothing ==
    grouped.back.called => (grouped.back.ok /\ grouped.back.out = grouped.data)

\* Seven 5-bit values: four bytes and three zero bits left over.
C24_Witness ==
    /\ grouped.back.called
    /\ Len(grouped.data) = 7 /\ grouped.data[7] = 24
    /\ Len(grouped.strictly.dec.out) = 4

\* C29: the encoder-side copies (package addressutil) and the decoder-side
\* copies (package bchutil) of convertBits, expandPrefix, cat and polyMod
\* compute the same result for every input.
C29_CopiesAgree ==
    /\ grouped.padded.called => grouped.padded.enc = grouped.padded.dec
    /\ grouped.strictly.called => grouped.strictly.enc = grouped.strictly.dec
    /\ grouped.sums.called =>
          /\ grouped.sums.expandEnc = grouped.sums.expandDec
          /\ grouped.sums.catEnc = grouped.sums.catDec
          /\ grouped.sums.modEnc = grouped.sums.modDec

\* Sixteen values through polyMod: the state has passed bit 35 and the
\* generators have been applied.
C29_Witness ==
    /\ grouped.sums.called
    /\ grouped.fromBits = 8 /\ grouped.tobits = 8 /\ Len(grouped.data) = 8
    /\ Len(grouped.sums.catEnc) = 16
    /\ grouped.sums.modEnc[1] # 0
    /\ grouped.strictly.enc.ok

\* The states polyMod's loop passes through on v: after 0, 1, .., Len(v)
\* values.
PolyModStates(v) == {polyModLoop(v, 1, n, W40One) : n \in 0..Len(v)}

\* A 40-bit number: eight digits of five bits.
Below2To40(c) == Len(c) = 8 /\ \A k \in 1..8 : c[k] \in 0..31

\* C30: every value that encode uses as an index into the 32-character
\* alphabet is in 0..31: convertBits(., 8, 5, true) emits only values
\* < 32, createChecksum emits exactly eight values each < 32, taken
\* big-endian from a polyMod result that is < 2^40, and the polyMod state
\* stays < 2^40 after every step.
C30_IndicesInRange ==
    /\ (grouped.padded.called /\ grouped.tobits = 5) =>
          \A k \in 1..Len(grouped.padded.enc.out) : grouped.padded.enc.out[k] \in 0..31
    /\ grouped.text.called =>
          With(cat(cat(expandPrefix(grouped.text.prefix), grouped.padded.enc.out),
                   <<0, 0, 0, 0, 0, 0, 0, 0>>),
               LAMBDA enc :
                   /\ ~grouped.text.panic
                   /\ Len(grouped.text.checksum) = 8
                   /\ \A k \in 1..8 : grouped.text.checksum[k] \in 0..31
                   /\ \A c \in PolyModStates(enc) : Below2To40(c)
                   /\ grouped.text.checksum = polyMod(enc)
                   /\ Len(grouped.text.out) = Len(grouped.padded.enc.out) + 8
                   /\ \A k \in 1..Len(grouped.text.out) :
                          \E i \in 0..31 : grouped.text.out[k] = bchBase32Encoder[i + 1])

C30_Witness ==
    /\ grouped.text.called
    /\ grouped.data = <<255, 255, 255>>
    /\ grouped.padded.enc.out = <<31, 31, 31, 31, 30>>
    /\ \E k \in 1..8 : grouped.text.checksum[k] > 15

(***************************************************************************)
(* SpecPack: packAddressData called on address types and hashes of the     *)
(* lengths around and between the ones it accepts, and CashAddress called  *)
(* on legacy texts of several version bytes and payload lengths.           *)
(***************************************************************************)
TypeSamples == {AddrTypePayToPubKeyHash, AddrTypePayToScriptHash, 2}
HashLengths == {0, 19, 20, 21, 24, 28, 32, 36, 40, 44, 48, 52, 56}
HashOfLength(n) == [k \in 1..n |-> (k * 29 + n) % 256]

\* Legacy texts: version bytes of both networks and two others, payloads
\* of 20 bytes and of lengths packAddressData rejects; one with a wrong
\* checksum.
LegacyInputs ==
    {base58_CheckEncode(HashOfLength(n), v) : n \in {19, 20, 24, 56}, v \in {0, 111, 5, 196}}
        \cup {AlterLast(base58_CheckEncode(HashOfLength(20), 0))}

NoPack == [op |-> "", addrType |-> 0, addrHash |-> <<>>, addr |-> <<>>, err |-> "nil",
           data |-> <<>>, text |-> <<>>]

PackInit ==
    /\ packs = <<>>
    /\ BitsIdle /\ CashIdle /\ ObjIdle /\ RegIdle /\ RaceIdle /\ CheckIdle /\ CodeIdle
    /\ GroupIdle

\* packAddressData(addrType, addrHash): the call and what it returned.
CallPackAddressData(addrType, addrHash) ==
    /\ Len(packs) < MaxPacks
    /\ \E r \in {packAddressData(addrType, addrHash)} :
           packs' = Append(packs, [NoPack EXCEPT !.op = "packAddressData",
                                                 !.addrType = addrType, !.addrHash = addrHash,
                                                 !.err = r.err, !.data = r.data])
    /\ UNCHANGED <<bitsVars, cashVars, objVars, regVars, raceVars, checkVars, codeVars, groupVars>>

\* CashAddress(addr): the call and what it returned.
CallCashAddress(addr) ==
    /\ Len(packs) < MaxPacks
    /\ \E r \in {CashAddress(addr)} :
           packs' = Append(packs, [NoPack EXCEPT !.op = "CashAddress", !.addr = addr,
                                                 !.err = r.err, !.text = r.text])
    /\ UNCHANGED <<bitsVars, cashVars, objVars, regVars, raceVars, checkVars, codeVars, groupVars>>

PackNext ==
    \/ \E addrType \in TypeSamples : \E n \in HashLengths :
           CallPackAddressData(addrType, HashOfLength(n))
    \/ \E addr \in LegacyInputs : CallCashAddress(addr)

SpecPack == PackInit /\ [][PackNext]_vars

\* The byte the packed data starts with: the first 5-bit group and the top
\* three bits of the second.
VersionByteOf(call) == call.data[1] * 8 + (call.data[2] \div 4)

\* C22: the version byte built by packAddressData identifies its inputs:
\* two accepted calls whose (address type, hash length) differ produce
\* different version bytes.
C22_VersionByteIdentifies ==
    \A i \in DOMAIN packs : \A j \in DOMAIN packs :
        (/\ packs[i].op = "packAddressData" /\ packs[j].op = "packAddressData"
         /\ packs[i].err = "nil" /\ packs[j].err = "nil"
         /\ <<packs[i].addrType, Len(packs[i].addrHash)>>
               # <<packs[j].addrType, Len(packs[j].addrHash)>>)
        => VersionByteOf(packs[i]) # VersionByteOf(packs[j])

\* The index of the first separator of t, 0 when it has none.
SeparatorAt(t) ==
    IF \E k \in 1..Len(t) : t[k] = 58
    THEN CHOOSE k \in 1..Len(t) : t[k] = 58 /\ \A j \in 1..(k - 1) : t[j] # 58
    ELSE 0

\* C27: whenever CashAddress(addr) returns a nil error, its result has a
\* non-empty network prefix (bitcoincash or bchtest) before the colon and a
\* non-empty base-32 part after it; for a legacy input whose version byte
\* is neither 0x00 nor 0x6f, or whose payload length packAddressData
\* rejects, CashAddress returns a non-nil error.
C27_CashAddressWellFormed ==
    \A i \in DOMAIN packs :
        packs[i].op = "CashAddress" =>
            /\ packs[i].err = "nil" =>
                  With(SeparatorAt(packs[i].text), LAMBDA k :
                      /\ k > 1
                      /\ Slice(packs[i].text, 0, k - 1) \in {STR_bitcoincash, STR_bchtest}
                      /\ Len(packs[i].text) > k)
            /\ With(base58_CheckDecode(packs[i].addr), LAMBDA r :
                  (/\ r.err = "nil"
                   /\ \/ r.version \notin {BCH_MAIN_NET, BCH_TEST_NET}
                      \/ packAddressData(AddrTypePayToPubKeyHash, r.result).err # "nil")
                  => packs[i].err # "nil")
====
